---- MODULE Spec2Model ----
(***************************************************************************)
(* The metrics watcher of the Azure Monitor Agent extension                *)
(* (src/AzureMonitorAgent/agent.py, metrics_watcher): a loop that polls    *)
(* the metric-counter configuration file, sets up or tears down the two    *)
(* sub-agents (telegraf, the collector, and MetricsExtension "me", the     *)
(* exporter), keeps the MSI token fresh and restarts a sub-agent found     *)
(* not running.                                                            *)
(*                                                                         *)
(* One cycle of the loop is the sequence of steps                          *)
(*   ReadConfig -> (ClearedConfig | Reconcile -> Credential ->             *)
(*                  LivenessTelegraf -> LivenessMe) -> Sleep               *)
(* and an exception raised by any call of a step ends the cycle in the     *)
(* except clauses of the loop, which log it and fall through to the sleep. *)
(***************************************************************************)
EXTENDS Integers, Sequences, FiniteSets, TLC

\* ------------------------------------------------------------- bounds ---
\* The wall clock is read on a grid of TimeStep seconds, 0 .. MaxTime steps.
MaxTime == 1
TimeStep == 600
\* Consecutive not-running liveness observations are counted up to
\* max_restart_retries + MaxOverrun.
MaxOverrun == 1

\* Invocations of start_metrics_process that can overlap, and the watcher
\* processes spawned in a run.
MaxCallers == 2
MaxSpawns == 3

\* The largest `retries` run_command_with_retries_output is called with.
MaxRetries == 2
\* Token issuances counted in one lifetime of the watcher.
MaxIssuances == 2

\* -------------------------------------------------- program constants ---
max_restart_retries == 10
DPKGLockedErrorCode == 56
RefreshMarginSeconds == 1800
\* me_msi_token_expiry_epoch is None (line 759, 804), "" (line 834) or an
\* epoch in seconds; the two non-numbers are encoded below zero.
NoneEpoch == -1
EmptyEpoch == -2

\* ------------------------------------------------------------ domains ---
Telegraf == "telegraf"
Me == "me"
Agents == {Telegraf, Me}

\* What the poll of MdsdCounterJsonPath can find: no file, or a file with
\* one of these contents.  ActiveA and ActiveASpaced parse to the same JSON
\* object and differ in whitespace only.
Absent == "<absent>"
NoData == "<unread>"
EmptyContent == ""
ZeroCounters == "{}"
ActiveA == "{\"cpu\":{}}"
ActiveASpaced == "{ \"cpu\": {} }"
InvalidJson == "{\"cpu\":"
Contents == {EmptyContent, ZeroCounters, ActiveA, ActiveASpaced, InvalidJson}
FileStates == {Absent} \cup Contents
\* The file is there and open() or read() raises IOError (lines 764-765).
Unreadable == "<unreadable>"
PollResults == FileStates \cup {Unreadable}

\* What the token cache file can be when the watcher looks at it.
TokenFileAbsent == "absent"
TokenFileNoExpiry == "no_expires_on"
TokenFileWithExpiry == "expires_on"
TokenFileStates == {TokenFileAbsent, TokenFileNoExpiry, TokenFileWithExpiry}
NotLooked == "not_looked"

Times == {t * TimeStep : t \in 0..MaxTime}
\* Lifetimes of an issued token: inside the margin, and outside it by one
\* grid step.
TokenLifetimes == {TimeStep, RefreshMarginSeconds + TimeStep}

\* ------------------------------------------------------- pure helpers ---
Take(s, k) == SubSeq(s, 1, k)

In(s, x) == \E i \in 1..Len(s) : s[i] = x

Count(s, x) == Cardinality({i \in 1..Len(s) : s[i] = x})

\* Position of the first x in s, 0 when there is none.
IndexOf(s, x) == IF In(s, x) THEN CHOOSE i \in 1..Len(s) : s[i] = x /\ \A j \in 1..(i-1) : s[j] # x ELSE 0

\* A call on a sub-agent's handler module, as it appears in the call log.
Call(a, op) == <<a, op>>

\* json.loads(data) followed by len(json_data): the set of counter names of
\* the parsed object; InvalidJson makes json.loads raise.
JsonParses(d) == d \in {ZeroCounters, ActiveA, ActiveASpaced}

JsonLoads(d) == IF d = ZeroCounters THEN {} ELSE {"cpu"}

\* Empty content taken for an object with no counter.
ClassifyEmptyAsCleared(d) ==
    IF d = Absent THEN "skip"
    ELSE IF d = EmptyContent THEN "cleared"
    ELSE IF ~JsonParses(d) THEN "raise"
    ELSE IF Cardinality(JsonLoads(d)) = 0 THEN "cleared"
    ELSE "active"

\* Content that does not parse taken for an object with no counter.
ClassifyUnparsedAsCleared(d) ==
    IF d = Absent \/ d = EmptyContent THEN "skip"
    ELSE IF ~JsonParses(d) THEN "cleared"
    ELSE IF Cardinality(JsonLoads(d)) = 0 THEN "cleared"
    ELSE "active"

\* A missing file taken for an object with no counter.
ClassifyAbsentAsCleared(d) ==
    IF d = EmptyContent THEN "skip"
    ELSE IF d = Absent THEN "cleared"
    ELSE IF ~JsonParses(d) THEN "raise"
    ELSE IF Cardinality(JsonLoads(d)) = 0 THEN "cleared"
    ELSE "active"

\* Empty content taken for an object with counters.
ClassifyEmptyAsActive(d) ==
    IF d = Absent THEN "skip"
    ELSE IF d = EmptyContent THEN "active"
    ELSE IF ~JsonParses(d) THEN "raise"
    ELSE IF Cardinality(JsonLoads(d)) = 0 THEN "cleared"
    ELSE "active"

\* How the poll goes on from what it read (lines 763-770, 799): the file is
\* missing or empty and nothing is done, json.loads raises, the object has
\* no counter, or it has some.
Classify(d) ==
    IF d = Absent \/ d = EmptyContent THEN "skip"
    ELSE IF ~JsonParses(d) THEN "raise"
    ELSE IF Cardinality(JsonLoads(d)) = 0 THEN "cleared"
    ELSE "active"

\* A digest of the parsed object instead of the raw bytes.
FingerprintOfParsed(d) == <<"sha256", JsonLoads(d)>>

\* hashlib.sha256(data.encode('utf-8')).hexdigest(): a digest of the raw
\* bytes, taken as collision free on the contents considered.
Fingerprint(d) == <<"sha256", d>>

NoCrc == <<>>

\* The comparison left out: every poll counts as a change.
AlwaysChanged(crc, last) == TRUE

\* crc != last_crc
ConfigChanged(crc, last) == crc # last

\* me_msi_token_expiry_epoch is None or me_msi_token_expiry_epoch == ""
NoExpiryCached(e) == e = NoneEpoch \/ e = EmptyEpoch

\* The margin's boundary included.
TokenExpiringInclusive(e, t) == e - t <= RefreshMarginSeconds

\* token_expiry_time - currentTime < datetime.timedelta(minutes=30)
TokenExpiring(e, t) == e - t < RefreshMarginSeconds

\* telegraf_restart_retries < max_restart_retries
RestartAllowed(retries) == retries < max_restart_retries

\* ---------------------------------------------------------- variables ---
VARIABLES
    pc,                          \* position of the watcher in its cycle
    data,                        \* what this cycle's poll read
    last_crc,
    me_msi_token_expiry_epoch,
    telegraf_restart_retries,
    me_restart_retries,
    running,                     \* the sub-agents' processes
    now,                         \* the wall clock
    calls,                       \* this cycle's calls on the handlers, in order
    logged,                      \* this cycle's diagnostics
    token_file,                  \* the token cache file as this cycle found it
    prev_data,                   \* history: what the previous poll read
    recorded,                    \* history: the content whose fingerprint last_crc holds
    came_from,                   \* history: what was polled before the file got this content
    retry_due,                   \* history: an issuance failed, none succeeded since and
                                 \*          every poll since read an active configuration
    earlier,                     \* history: lifecycle calls of the earlier cycles that
                                 \*          polled this same content in a row
    down_run                     \* history: consecutive not-running liveness checks

\* The launcher of the watcher process (stop_metrics_process,
\* start_metrics_process, metrics).
VARIABLES
    alive,                       \* pids of the watcher processes alive
    pid_file,                    \* amametrics.pid: missing, or the pid written in it
    written,                     \* watcher processes that have written their pid
    spawned,                     \* subprocess.Popen calls made so far
    caller                       \* each invocation of start_metrics_process:
                                 \* its position and the pids it read

prog == <<pc, data, last_crc, me_msi_token_expiry_epoch, telegraf_restart_retries,
          me_restart_retries, running, now, calls, logged, token_file>>
hist == <<prev_data, recorded, came_from, retry_due, earlier, down_run>>
\* run_command_with_retries_output: its parameters, its locals and the
\* record of its invocations of the command.
VARIABLES
    step,                        \* position in run_command_with_retries_output
    retries,
    retry_check,
    final_check,
    try_count,
    run_verbosely,
    run_cmd,
    exit_code,
    output,
    trail                        \* history: one record for each invocation

\* The managed identity: the extension's public settings, what
\* get_managed_identity returned when the watcher started, and the token
\* issuances of this lifetime.
VARIABLES
    public_settings,
    identifier_name,
    identifier_value,
    error_msg,
    issued_with,                 \* history: the (name, value) pairs passed to issuances
    issuances                    \* history: how many issuances were called

launch == <<alive, pid_file, written, spawned, caller>>
retrying == <<step, retries, retry_check, final_check, try_count, run_verbosely,
              run_cmd, exit_code, output, trail>>
\* History: what each call of this cycle returned, call by call: "ok" or
\* "not_ok" for a stop or a start that returned, "-" for any other call and
\* for a call that raised.
VARIABLES returned

\* History of the polls: one record for each of the last polls, oldest
\* first: what the poll read and what its cycle did to the sub-agents.
VARIABLES polls

\* stop_metrics_process as disable calls it, beside a running watcher.
VARIABLES
    stop_pc,                     \* position in stop_metrics_process
    stop_pids,                   \* the pids read from amametrics.pid
    stopped,                     \* history: sub-agents it stopped and removed
    restarted                    \* history: of these, the ones the watcher
                                 \*          started afterwards

\* main and the operation it dispatches to.
VARIABLES
    main_pc,                     \* position in main
    option,                      \* sys.argv[1], or none
    operation,
    free_space_mb,               \* what get_free_space_mb finds for each mount
    HUtilObject,
    seq_smaller,                 \* what HUtilObject.is_seq_smaller() returns
    main_exit_code,              \* the exit code main ends with
    invoked,                     \* history: the calls of main and enable, in order
    start_command                \* history: how the service start command went

stopping == <<stop_pc, stop_pids, stopped, restarted>>
handling == <<main_pc, option, operation, free_space_mb, HUtilObject, seq_smaller,
              main_exit_code, invoked, start_command>>
around == <<polls, stopping, handling>>
identity == <<public_settings, identifier_name, identifier_value, error_msg,
              issued_with, issuances>>
aside == <<launch, retrying, identity, returned, around>>
vars == <<prog, hist, launch, retrying, identity, returned, around>>

\* The public settings as get_managed_identity reads them (line 660): None,
\* without "authentication", without "managedIdentity" in it, or with a
\* managedIdentity object that has or lacks each of its two keys.
NoSettings == "None"
NoAuthentication == "no authentication"
NoManagedIdentity == "no managedIdentity"
ManagedIdentity == "managedIdentity"
IdentifierNames == {"object_id", "client_id", "mi_res_id"}
GivenNames == IdentifierNames \cup {"tenant_id"}
\* Values: empty, a GUID, a text with a GUID inside it, a resource id.
Guid == "0a1b2c3d-1111-2222-3333-aabbccddeeff"
GuidInside == "id=0a1b2c3d-1111-2222-3333-aabbccddeeff;"
ResourceId == "/subscriptions/s/resourcegroups/g/providers/Microsoft.ManagedIdentity/userAssignedIdentities/u"
GivenValues == {"", Guid, GuidInside, ResourceId}

Unset(kind) == [setting |-> kind, has_name |-> FALSE, has_value |-> FALSE,
                name |-> "", value |-> ""]

Settings ==
    {Unset(k) : k \in {NoSettings, NoAuthentication, NoManagedIdentity}}
        \cup {[setting |-> ManagedIdentity, has_name |-> hn, has_value |-> hv,
               name |-> IF hn THEN n ELSE "", value |-> IF hv THEN v ELSE ""] :
                  hn \in BOOLEAN, hv \in BOOLEAN, n \in GivenNames, v \in GivenValues}

\* No settings, and what get_managed_identity returns for them.
IdentityInit ==
    /\ public_settings = Unset(NoSettings)
    /\ identifier_name = ""
    /\ identifier_value = ""
    /\ error_msg = ""
    /\ issued_with = {}
    /\ issuances = 0

\* The command and its verbose form (line 1220).
Cmd == "cmd"
CmdVerbose == "cmd -v"

\* What an invocation of the command can return: exit status 0 or not, and
\* an output with or without a line that has "dpkg", then at least one
\* character, then "lock" (the regular expression of line 1243).
ExitCodes == {0, 1}
PlainOutput == "Setting up azuremonitoragent"
LockedOutput == "dpkg: error: dpkg status database is locked by another process"
SplitOutput == "dpkg: warning\nunlock"
Outputs == {PlainOutput, LockedOutput, SplitOutput}
NoExitCode == -1

\* The functions passed as retry_check and as final_check: a function the
\* caller chooses freely, the package-lock ones of this file, or None.
AnyCheck == "any"
DpkgRetryCheck == "retry_if_dpkg_locked"
DpkgFinalCheck == "final_check_if_dpkg_locked"
NoCheck == "None"
RetryChecks == {AnyCheck, DpkgRetryCheck}
FinalChecks == {NoCheck, DpkgFinalCheck}

\* What a retry_check returns: should_retry and retry_verbosely.
Verdicts == [should_retry : BOOLEAN, retry_verbosely : BOOLEAN]

\* run_command_with_retries_output not called yet.
RetryInit ==
    /\ step = "idle"
    /\ retries = 0
    /\ retry_check = NoCheck
    /\ final_check = NoCheck
    /\ try_count = 0
    /\ run_verbosely = FALSE
    /\ run_cmd = Cmd
    /\ exit_code = NoExitCode
    /\ output = ""
    /\ trail = <<>>

Callers == 1..MaxCallers
Pids == 1..MaxSpawns
NoPidFile == 0

\* No watcher process yet, no pid file, no invocation under way.
LaunchInit ==
    /\ alive = {}
    /\ pid_file = NoPidFile
    /\ written = {}
    /\ spawned = 0
    /\ caller = [k \in Callers |-> [pc |-> "idle", pids |-> {}]]

NoOption == [lead |-> "", word |-> "<none>"]
NoOperation == "None"
NoHUtil == "None"
HUtil == "HandlerUtility"
Mounts == <<"/var", "/etc", "/opt">>
NotRun == [code |-> NoExitCode, denied |-> FALSE]

\* No poll yet, stop_metrics_process not called, main not entered.
AroundInit ==
    /\ polls = <<>>
    /\ stop_pc = "idle"
    /\ stop_pids = {}
    /\ stopped = {}
    /\ restarted = {}
    /\ main_pc = "idle"
    /\ option = NoOption
    /\ operation = NoOperation
    /\ free_space_mb = [i \in 1..Len(Mounts) |-> "enough"]
    /\ HUtilObject = NoHUtil
    /\ seq_smaller = FALSE
    /\ main_exit_code = NoExitCode
    /\ invoked = <<>>
    /\ start_command = NotRun

Init ==
    /\ pc = "read"
    /\ data = NoData
    /\ last_crc = NoCrc
    /\ me_msi_token_expiry_epoch = NoneEpoch
    /\ telegraf_restart_retries = 0
    /\ me_restart_retries = 0
    /\ running \in [Agents -> BOOLEAN]
    /\ now = 0
    /\ calls = <<>>
    /\ logged = {}
    /\ token_file = NotLooked
    /\ prev_data = NoData
    /\ recorded = NoData
    /\ came_from = "other"
    /\ retry_due = FALSE
    /\ earlier = {}
    /\ down_run = [a \in Agents |-> 0]
    /\ LaunchInit
    /\ RetryInit
    /\ IdentityInit
    /\ returned = <<>>
    /\ AroundInit

\* --------------------------------------------------- calls of a step ---
\* A step plans its calls; raised = 0 when none of them raises, and
\* raised = k when the k-th does: the calls up to it were made, the ones
\* before it returned.
Made(plan, raised) == IF raised = 0 THEN plan ELSE Take(plan, raised)

Returned(plan, raised) == IF raised = 0 THEN plan ELSE Take(plan, raised - 1)

\* No except clause: the exception leaves the loop and the thread ends.
Propagates ==
    /\ logged' = logged
    /\ pc' = "ended"

\* The except clauses of the loop (lines 905-909).
Caught ==
    /\ logged' = logged \cup {"exception"}
    /\ pc' = "sleep"

\* stop_*_service then remove_*_service of a sub-agent found running.
StopAndRemove(a) == <<Call(a, "stop"), Call(a, "remove")>>

\* Stop and remove without looking at what is_running returned.
ClearedPlanUnchecked(run) ==
    <<Call(Telegraf, "is_running")>> \o StopAndRemove(Telegraf)
        \o <<Call(Me, "is_running")>> \o StopAndRemove(Me)

\* remove_*_service ahead of stop_*_service.
ClearedPlanRemoveFirst(run) ==
    <<Call(Telegraf, "is_running")>>
        \o (IF run[Telegraf] THEN <<Call(Telegraf, "remove"), Call(Telegraf, "stop")>> ELSE <<>>)
        \o <<Call(Me, "is_running")>>
        \o (IF run[Me] THEN <<Call(Me, "remove"), Call(Me, "stop")>> ELSE <<>>)

\* The calls of the zero-counter branch (lines 772-798).
ClearedPlan(run) ==
    <<Call(Telegraf, "is_running")>>
        \o (IF run[Telegraf] THEN StopAndRemove(Telegraf) ELSE <<>>)
        \o <<Call(Me, "is_running")>>
        \o (IF run[Me] THEN StopAndRemove(Me) ELSE <<>>)

\* The calls that set both sub-agents up (lines 808-823).
ReconcilePlan ==
    <<Call(Telegraf, "handle_config"), Call(Me, "setup_me"),
      Call(Telegraf, "start"), Call(Me, "start")>>

\* start ahead of stop.
RestartPlanStartFirst(a) == <<Call(a, "start"), Call(a, "stop")>>

\* stop then start of a sub-agent found not running (lines 869-874, 889-894).
RestartPlan(a) == <<Call(a, "stop"), Call(a, "start")>>

\* The stop and start calls among the calls of a plan: what each returns
\* (ok or not) is an input of the step.
Outcomes(plan) ==
    [{plan[i] : i \in {j \in 1..Len(plan) : plan[j][2] \in {"stop", "start"}}} -> BOOLEAN]

\* The sub-agents' processes after the calls that returned: a stop that
\* returned ok leaves the process down, a start that returned ok leaves it
\* up (ok[c] is what call c returned; the later call wins).
After(run, done, ok) ==
    [a \in Agents |->
        LET stopAt == IF In(done, Call(a, "stop")) /\ ok[Call(a, "stop")]
                      THEN IndexOf(done, Call(a, "stop")) ELSE 0
            startAt == IF In(done, Call(a, "start")) /\ ok[Call(a, "start")]
                       THEN IndexOf(done, Call(a, "start")) ELSE 0
        IN  IF stopAt = 0 /\ startAt = 0 THEN run[a]
            ELSE startAt > stopAt]

\* What the call of generate_MSI_token at time t can do: return a token and
\* its expiry, return no token and an empty expiry, or raise.
IssuanceRaises == [kind |-> "raise", expiry |-> NoneEpoch]

IssuanceResults(t) ==
    {[kind |-> "token", expiry |-> t + l] : l \in TokenLifetimes}
        \cup {[kind |-> "no_token", expiry |-> EmptyEpoch]}

IssuanceOutcomes(t) == IssuanceResults(t) \cup {IssuanceRaises}

\* ------------------------------------------------------------- steps ---
\* Lines 763-770: the poll of the configuration file.
ReadConfig(c) ==
    /\ pc = "read"
    /\ data' = c
    /\ logged' = IF Classify(c) = "raise" THEN {"exception"} ELSE {}
    /\ pc' = CASE Classify(c) = "skip" -> "sleep"
               [] Classify(c) = "raise" -> "sleep"
               [] Classify(c) = "cleared" -> "cleared"
               [] OTHER -> "reconcile"
    /\ UNCHANGED <<last_crc, me_msi_token_expiry_epoch, telegraf_restart_retries,
                   me_restart_retries, running, now, calls, token_file>>

\* The zero-counter branch without line 771: last_crc left as it was.
ClearedKeepsFingerprint(raised, ok) ==
    /\ pc = "cleared"
    /\ raised \in 0..Len(ClearedPlan(running))
    /\ UNCHANGED last_crc
    /\ calls' = calls \o Made(ClearedPlan(running), raised)
    /\ running' = After(running, Returned(ClearedPlan(running), raised), ok)
    /\ IF raised = 0 THEN pc' = "sleep" /\ UNCHANGED logged ELSE Caught
    /\ UNCHANGED <<data, me_msi_token_expiry_epoch, telegraf_restart_retries,
                   me_restart_retries, now, token_file>>

\* Lines 770-798: a JSON object with no counter.
ClearedConfig(raised, ok) ==
    /\ pc = "cleared"
    /\ raised \in 0..Len(ClearedPlan(running))
    /\ last_crc' = Fingerprint(data)
    /\ calls' = calls \o Made(ClearedPlan(running), raised)
    /\ running' = After(running, Returned(ClearedPlan(running), raised), ok)
    /\ IF raised = 0 THEN pc' = "sleep" /\ UNCHANGED logged ELSE Caught
    /\ UNCHANGED <<data, me_msi_token_expiry_epoch, telegraf_restart_retries,
                   me_restart_retries, now, token_file>>

\* The fingerprint recorded only when both starts returned ok.
ReconcileForgetsFailedStart(raised, ok) ==
    /\ pc = "reconcile"
    /\ IF ConfigChanged(Fingerprint(data), last_crc)
       THEN /\ raised \in 0..Len(ReconcilePlan)
            /\ me_msi_token_expiry_epoch' = NoneEpoch
            /\ calls' = calls \o Made(ReconcilePlan, raised)
            /\ running' = After(running, Returned(ReconcilePlan, raised), ok)
            /\ IF raised = 0
               THEN /\ last_crc' = IF \A c \in DOMAIN ok : ok[c]
                                   THEN Fingerprint(data) ELSE last_crc
                    /\ pc' = "credential"
                    /\ UNCHANGED logged
               ELSE /\ UNCHANGED last_crc
                    /\ Caught
       ELSE /\ raised = 0
            /\ pc' = "credential"
            /\ UNCHANGED <<me_msi_token_expiry_epoch, calls, running, last_crc, logged>>
    /\ UNCHANGED <<data, telegraf_restart_retries, me_restart_retries, now, token_file>>

\* The fingerprint recorded ahead of the set-up calls.
ReconcileRecordsFirst(raised, ok) ==
    /\ pc = "reconcile"
    /\ IF ConfigChanged(Fingerprint(data), last_crc)
       THEN /\ raised \in 0..Len(ReconcilePlan)
            /\ me_msi_token_expiry_epoch' = NoneEpoch
            /\ last_crc' = Fingerprint(data)
            /\ calls' = calls \o Made(ReconcilePlan, raised)
            /\ running' = After(running, Returned(ReconcilePlan, raised), ok)
            /\ IF raised = 0
               THEN pc' = "credential" /\ UNCHANGED logged
               ELSE Caught
       ELSE /\ raised = 0
            /\ pc' = "credential"
            /\ UNCHANGED <<me_msi_token_expiry_epoch, calls, running, last_crc, logged>>
    /\ UNCHANGED <<data, telegraf_restart_retries, me_restart_retries, now, token_file>>

\* Lines 800-829: a JSON object with counters.
Reconcile(raised, ok) ==
    /\ pc = "reconcile"
    /\ IF ConfigChanged(Fingerprint(data), last_crc)
       THEN /\ raised \in 0..Len(ReconcilePlan)
            /\ me_msi_token_expiry_epoch' = NoneEpoch
            /\ calls' = calls \o Made(ReconcilePlan, raised)
            /\ running' = After(running, Returned(ReconcilePlan, raised), ok)
            /\ IF raised = 0
               THEN /\ last_crc' = Fingerprint(data)
                    /\ pc' = "credential"
                    /\ UNCHANGED logged
               ELSE /\ UNCHANGED last_crc
                    /\ Caught
       ELSE /\ raised = 0
            /\ pc' = "credential"
            /\ UNCHANGED <<me_msi_token_expiry_epoch, calls, running, last_crc, logged>>
    /\ UNCHANGED <<data, telegraf_restart_retries, me_restart_retries, now, token_file>>

\* Lines 834-843: with no expiry in memory the token cache file is looked
\* at; a file holding "expires_on" is indexed as a string, which raises.
LooksAtTokenFile(e) == NoExpiryCached(e)

TokenFileRaises(e, tf) == LooksAtTokenFile(e) /\ tf = TokenFileWithExpiry

\* A token cache file without expires_on taken for a cached token.
GenerateTokenUnlessFile(e, tf, t) ==
    \/ LooksAtTokenFile(e) /\ tf = TokenFileAbsent
    \/ ~NoExpiryCached(e) /\ TokenExpiring(e, t)

\* Lines 831-850: generate_token.
GenerateToken(e, tf, t) ==
    \/ LooksAtTokenFile(e) /\ tf # TokenFileWithExpiry
    \/ ~NoExpiryCached(e) /\ TokenExpiring(e, t)

\* Lines 831-858: the credential check; res is what the call of
\* generate_MSI_token does if it is made.
Credential(tf, res) ==
    /\ pc = "credential"
    /\ token_file' = IF LooksAtTokenFile(me_msi_token_expiry_epoch) THEN tf ELSE NotLooked
    /\ IF TokenFileRaises(me_msi_token_expiry_epoch, tf)
       THEN /\ Caught
            /\ UNCHANGED <<me_msi_token_expiry_epoch, calls>>
       ELSE IF GenerateToken(me_msi_token_expiry_epoch, tf, now)
       THEN /\ calls' = Append(calls, Call(Me, "generate_MSI_token"))
            /\ IF res = IssuanceRaises
               THEN /\ Caught
                    /\ UNCHANGED me_msi_token_expiry_epoch
               ELSE /\ me_msi_token_expiry_epoch' = res.expiry
                    /\ logged' = logged \cup {IF res.kind = "token" THEN "token_refreshed"
                                                                   ELSE "token_failed"}
                    /\ pc' = "liveness_telegraf"
       ELSE /\ pc' = "liveness_telegraf"
            /\ UNCHANGED <<me_msi_token_expiry_epoch, calls, logged>>
    /\ UNCHANGED <<data, last_crc, telegraf_restart_retries, me_restart_retries,
                   running, now>>

\* Lines 860-861: both counters are set to 0 before the liveness pass.
RetriesAtPass(kept) == 0

\* A restart whatever is_running returned.
LivenessPlanRegardless(run, a, n) ==
    <<Call(a, "is_running")>> \o (IF RestartAllowed(n) THEN RestartPlan(a) ELSE <<>>)

\* The calls of the liveness check of sub-agent a with counter value n.
LivenessPlan(run, a, n) ==
    <<Call(a, "is_running")>>
        \o (IF ~run[a] /\ RestartAllowed(n) THEN RestartPlan(a) ELSE <<>>)

\* The counter of sub-agent a after its liveness check (lines 865-882).
RetriesAfter(run, a, n, raised) ==
    IF raised = 1 THEN n
    ELSE IF run[a] THEN 0
    ELSE IF RestartAllowed(n) THEN n + 1
    ELSE n

\* The liveness check of sub-agent a, its counter being n when it starts.
Liveness(a, n, raised, ok) ==
    /\ raised \in 0..Len(LivenessPlan(running, a, n))
    /\ calls' = calls \o Made(LivenessPlan(running, a, n), raised)
    /\ running' = After(running, Returned(LivenessPlan(running, a, n), raised), ok)
    /\ IF raised # 0 THEN Caught
       ELSE IF ~running[a] /\ ~RestartAllowed(n)
       THEN logged' = logged \cup {"terminal"}
       ELSE UNCHANGED logged

\* Telegraf's liveness check placed ahead of the credential check.
LivenessAheadOfCredential(raised, ok) ==
    /\ \/ pc = "liveness_telegraf"
       \/ pc = "credential" /\ ~In(calls, Call(Telegraf, "is_running"))
    /\ Liveness(Telegraf, RetriesAtPass(telegraf_restart_retries), raised, ok)
    /\ telegraf_restart_retries' =
           RetriesAfter(running, Telegraf, RetriesAtPass(telegraf_restart_retries), raised)
    /\ me_restart_retries' = RetriesAtPass(me_restart_retries)
    /\ raised = 0 => pc' = (IF pc = "credential" THEN "credential" ELSE "liveness_me")
    /\ UNCHANGED <<data, last_crc, me_msi_token_expiry_epoch, now, token_file>>

\* Lines 860-882: the counters' reset, then telegraf's liveness check.
LivenessTelegraf(raised, ok) ==
    /\ pc = "liveness_telegraf"
    /\ Liveness(Telegraf, RetriesAtPass(telegraf_restart_retries), raised, ok)
    /\ telegraf_restart_retries' =
           RetriesAfter(running, Telegraf, RetriesAtPass(telegraf_restart_retries), raised)
    /\ me_restart_retries' = RetriesAtPass(me_restart_retries)
    /\ raised = 0 => pc' = "liveness_me"
    /\ UNCHANGED <<data, last_crc, me_msi_token_expiry_epoch, now, token_file>>

\* MetricsExtension's liveness check made only when telegraf's found it
\* running.
LivenessMeWhenTelegrafUp(raised, ok) ==
    /\ pc = "liveness_me"
    /\ IF In(calls, Call(Telegraf, "stop"))
       THEN /\ raised = 0
            /\ pc' = "sleep"
            /\ UNCHANGED <<calls, running, logged, me_restart_retries>>
       ELSE /\ Liveness(Me, me_restart_retries, raised, ok)
            /\ me_restart_retries' = RetriesAfter(running, Me, me_restart_retries, raised)
            /\ raised = 0 => pc' = "sleep"
    /\ UNCHANGED <<data, last_crc, me_msi_token_expiry_epoch, telegraf_restart_retries,
                   now, token_file>>

\* Lines 884-903: MetricsExtension's liveness check.
LivenessMe(raised, ok) ==
    /\ pc = "liveness_me"
    /\ Liveness(Me, me_restart_retries, raised, ok)
    /\ me_restart_retries' = RetriesAfter(running, Me, me_restart_retries, raised)
    /\ raised = 0 => pc' = "sleep"
    /\ UNCHANGED <<data, last_crc, me_msi_token_expiry_epoch, telegraf_restart_retries,
                   now, token_file>>

\* Line 912: time.sleep(sleepTime); the clock is read at t afterwards. The
\* record of the cycle's calls and diagnostics ends with the cycle.
Sleep(t) ==
    /\ pc = "sleep"
    /\ t >= now
    /\ now' = t
    /\ pc' = "read"
    /\ calls' = <<>>
    /\ logged' = {}
    /\ token_file' = NotLooked
    /\ UNCHANGED <<data, last_crc, me_msi_token_expiry_epoch, telegraf_restart_retries,
                   me_restart_retries, running>>

\* A sub-agent's process dies, or is brought up from outside the watcher.
ProcessChange(a) ==
    /\ running' = [running EXCEPT ![a] = ~@]
    /\ UNCHANGED <<pc, data, last_crc, me_msi_token_expiry_epoch, telegraf_restart_retries,
                   me_restart_retries, now, calls, logged, token_file>>

\* The longest plan of a step.
MaxPlan == Len(ClearedPlan([a \in Agents |-> TRUE]))

\* ------------------------------------------------------------ history ---
\* Calls that set up, start, stop or remove a sub-agent.
LifecycleOps == {"handle_config", "setup_me", "start", "stop", "remove"}

LifecycleCalls(s) == {s[i] : i \in {j \in 1..Len(s) : s[j][2] \in LifecycleOps}}

\* What a poll found, for the history: no file, an active configuration,
\* or something else.
Kind(d) ==
    IF d = Absent THEN "absent"
    ELSE IF d \in Contents /\ Classify(d) = "active" THEN "active"
    ELSE "other"

\* A poll that reads c: the previous poll's content, what was polled before
\* the file got this content, and the lifecycle calls made since it got it.
Polled(c) ==
    /\ prev_data' = data
    /\ came_from' = IF c = data THEN came_from ELSE Kind(data)
    /\ earlier' = IF c = data THEN earlier ELSE {}
    /\ retry_due' = (retry_due /\ Classify(c) = "active")
    /\ UNCHANGED <<recorded, down_run>>

\* The end of a cycle: its lifecycle calls join those of the earlier cycles.
Closed ==
    /\ earlier' = earlier \cup LifecycleCalls(calls)
    /\ UNCHANGED <<prev_data, recorded, came_from, retry_due, down_run>>

\* last_crc holds the fingerprint of the content read once the step has
\* assigned it: line 771 always does, line 829 does when the set-up ran
\* to its end.
Recording(assigned) ==
    /\ recorded' = IF assigned THEN data ELSE recorded
    /\ UNCHANGED <<prev_data, came_from, retry_due, earlier, down_run>>

\* A credential check: whether an issuance is left to retry.
Issued ==
    /\ retry_due' = IF "token_failed" \in logged' THEN TRUE
                    ELSE IF "token_refreshed" \in logged' THEN FALSE
                    ELSE retry_due
    /\ UNCHANGED <<prev_data, recorded, came_from, earlier, down_run>>

Next ==
    \/ \E c \in FileStates : ReadConfig(c) /\ Polled(c) /\ UNCHANGED aside
    \/ \E r \in 0..MaxPlan, ok \in Outcomes(ClearedPlan(running)) :
           ClearedConfig(r, ok) /\ Recording(TRUE) /\ UNCHANGED aside
    \/ \E r \in 0..MaxPlan, ok \in Outcomes(ReconcilePlan) :
           Reconcile(r, ok) /\ Recording(pc' = "credential" /\ calls' # calls) /\ UNCHANGED aside
    \/ \E tf \in TokenFileStates, res \in IssuanceOutcomes(now) :
           Credential(tf, res) /\ Issued /\ UNCHANGED aside
    \/ \E r \in 0..MaxPlan, ok \in Outcomes(RestartPlan(Telegraf)) :
           LivenessTelegraf(r, ok) /\ UNCHANGED hist /\ UNCHANGED aside
    \/ \E r \in 0..MaxPlan, ok \in Outcomes(RestartPlan(Me)) :
           LivenessMe(r, ok) /\ UNCHANGED hist /\ UNCHANGED aside
    \/ \E t \in Times : Sleep(t) /\ Closed /\ UNCHANGED aside
    \/ \E a \in Agents : ProcessChange(a) /\ UNCHANGED hist /\ UNCHANGED aside

Spec == Init /\ [][Next]_vars

\* ------------------------------------------ the restart budget's runs ---
\* The same watcher with the history of the liveness checks recorded, in an
\* environment that keeps one active configuration on disk, has no token
\* cache file, issues long-lived tokens and raises nothing: every cycle
\* reaches the liveness pass.
DownRunCap == max_restart_retries + MaxOverrun

\* The run of consecutive not-running liveness checks of a, after one more.
Observed(a) ==
    /\ UNCHANGED <<prev_data, recorded, came_from, retry_due, earlier>>
    /\ down_run' = [down_run EXCEPT ![a] =
                    IF running[a] THEN 0
                    ELSE IF @ < DownRunCap THEN @ + 1 ELSE @]

LongLived(t) == [kind |-> "token", expiry |-> t + RefreshMarginSeconds + TimeStep]

NextBudget ==
    \/ ReadConfig(ActiveA) /\ Polled(ActiveA) /\ UNCHANGED aside
    \/ \E ok \in Outcomes(ReconcilePlan) : Reconcile(0, ok) /\ Recording(pc' = "credential" /\ calls' # calls) /\ UNCHANGED aside
    \/ Credential(TokenFileAbsent, LongLived(now)) /\ Issued /\ UNCHANGED aside
    \/ \E ok \in Outcomes(RestartPlan(Telegraf)) :
           LivenessTelegraf(0, ok) /\ Observed(Telegraf) /\ UNCHANGED aside
    \/ \E ok \in Outcomes(RestartPlan(Me)) :
           LivenessMe(0, ok) /\ Observed(Me) /\ UNCHANGED aside
    \/ \E t \in Times : Sleep(t) /\ Closed /\ UNCHANGED aside
    \/ \E a \in Agents : ProcessChange(a) /\ UNCHANGED hist /\ UNCHANGED aside

SpecBudget == Init /\ [][NextBudget]_vars

\* ------------------------------------------------ the loop's progress ---
\* The watcher alone, its history left out, with the poll that cannot read
\* the file among its inputs.  A step of the watcher is a finite piece of
\* straight-line code whose calls return or raise, and the thread that runs
\* it (line 923) is scheduled: a step the watcher can take is taken.
WatcherStep ==
    \/ \E c \in PollResults : ReadConfig(c) /\ UNCHANGED hist /\ UNCHANGED aside
    \/ \E r \in 0..MaxPlan, ok \in Outcomes(ClearedPlan(running)) :
           ClearedConfig(r, ok) /\ UNCHANGED hist /\ UNCHANGED aside
    \/ \E r \in 0..MaxPlan, ok \in Outcomes(ReconcilePlan) :
           Reconcile(r, ok) /\ UNCHANGED hist /\ UNCHANGED aside
    \/ \E tf \in TokenFileStates, res \in IssuanceOutcomes(now) :
           Credential(tf, res) /\ UNCHANGED hist /\ UNCHANGED aside
    \/ \E r \in 0..MaxPlan, ok \in Outcomes(RestartPlan(Telegraf)) :
           LivenessTelegraf(r, ok) /\ UNCHANGED hist /\ UNCHANGED aside
    \/ \E r \in 0..MaxPlan, ok \in Outcomes(RestartPlan(Me)) :
           LivenessMe(r, ok) /\ UNCHANGED hist /\ UNCHANGED aside
    \/ \E t \in Times : Sleep(t) /\ UNCHANGED hist /\ UNCHANGED aside

NextLoop ==
    \/ WatcherStep
    \/ \E a \in Agents : ProcessChange(a) /\ UNCHANGED hist /\ UNCHANGED aside

SpecLoop == Init /\ [][NextLoop]_vars /\ WF_vars(WatcherStep)

\* ------------------------------------------- the watcher's launcher ---
\* start_metrics_process (lines 729-741) calls stop_metrics_process, which
\* kills the watcher whose pid amametrics.pid holds and removes the file
\* (lines 712-727), and then spawns a new watcher process; the new process
\* writes its own pid into the file when it gets to metrics() (lines
\* 918-921).  The stop and removal of the sub-agents (lines 684-710) do not
\* touch the watcher processes and are left out here.
At(k, p) == caller[k].pc = p

Goes(k, p, read) == caller' = [caller EXCEPT ![k] = [pc |-> p, pids |-> read]]

\* Invocations that still have their Popen to make.
UnderWay == {k \in Callers : ~At(k, "idle")}

\* Lines 712-717: an invocation begins; the pid file is looked for and read.
ReadPidFile(k) ==
    /\ At(k, "idle")
    /\ spawned + Cardinality(UnderWay) < MaxSpawns
    /\ IF pid_file = NoPidFile
       THEN Goes(k, "spawn", {})
       ELSE Goes(k, "kill", {pid_file})
    /\ UNCHANGED <<alive, pid_file, written, spawned>>

\* Lines 718-725: each pid read whose /proc cmdline is a metrics watcher's
\* is killed.
KillRecorded(k) ==
    /\ At(k, "kill")
    /\ alive' = alive \ caller[k].pids
    /\ Goes(k, "rm", {})
    /\ UNCHANGED <<pid_file, written, spawned>>

\* Line 727: rm amametrics.pid.
RemovePidFile(k) ==
    /\ At(k, "rm")
    /\ pid_file' = NoPidFile
    /\ Goes(k, "spawn", {})
    /\ UNCHANGED <<alive, written, spawned>>

\* Lines 737-741: subprocess.Popen of agent.py -metrics.
SpawnWatcher(k) ==
    /\ At(k, "spawn")
    /\ spawned' = spawned + 1
    /\ alive' = alive \cup {spawned + 1}
    /\ Goes(k, "idle", {})
    /\ UNCHANGED <<pid_file, written>>

\* Lines 918-921: a watcher process that has come to metrics() writes its
\* pid, replacing what the file held.
WritePid(p) ==
    /\ p \in alive \ written
    /\ pid_file' = p
    /\ written' = written \cup {p}
    /\ UNCHANGED <<alive, spawned, caller>>

NextLaunch ==
    \/ \E k \in Callers : ReadPidFile(k) /\ UNCHANGED <<prog, hist, retrying, identity, returned, around>>
    \/ \E k \in Callers : KillRecorded(k) /\ UNCHANGED <<prog, hist, retrying, identity, returned, around>>
    \/ \E k \in Callers : RemovePidFile(k) /\ UNCHANGED <<prog, hist, retrying, identity, returned, around>>
    \/ \E k \in Callers : SpawnWatcher(k) /\ UNCHANGED <<prog, hist, retrying, identity, returned, around>>
    \/ \E p \in Pids : WritePid(p) /\ UNCHANGED <<prog, hist, retrying, identity, returned, around>>

SpecLaunch == Init /\ [][NextLaunch]_vars

\* ------------------------------------------------ retried commands ---
\* dpkg_locked_re.search(output): a line of the output matches
\* ^.*dpkg.+lock.*$
DpkgLockedRe(o) == o = LockedOutput

\* Lines 1237-1247.
is_dpkg_locked(code, o) == code # 0 /\ DpkgLockedRe(o)

\* Lines 1250-1264.
retry_if_dpkg_locked(code, o) ==
    [should_retry |-> is_dpkg_locked(code, o), retry_verbosely |-> FALSE]

\* The exit code handed back as it is.
FinalCheckKeepsCode(code, o) == code

\* Lines 1267-1275.
final_check_if_dpkg_locked(code, o) ==
    IF is_dpkg_locked(code, o) THEN DPKGLockedErrorCode ELSE code

\* One retry fewer: the loop of line 1218 with < for <=.
WithinRetriesStrict(count, cap) == count < cap

\* while try_count <= retries
WithinRetries(count, cap) == count <= cap

\* Lines 1213-1216: the function is called with retries r, retry_check chk
\* and final_check fin.
RunCommandWithRetries(r, chk, fin) ==
    /\ step \in {"idle", "done"}
    /\ step' = "loop"
    /\ retries' = r
    /\ retry_check' = chk
    /\ final_check' = fin
    /\ try_count' = 0
    /\ run_verbosely' = FALSE
    /\ run_cmd' = Cmd
    /\ exit_code' = NoExitCode
    /\ output' = ""
    /\ trail' = <<>>

\* Lines 1218-1229: one turn of the loop.  The command returns code and o;
\* v is what a freely chosen retry_check returns for them.
Invoke(code, o, v) ==
    /\ step = "loop"
    /\ WithinRetries(try_count, retries)
    /\ LET cmd == IF run_verbosely THEN CmdVerbose ELSE run_cmd
           verdict == IF retry_check = DpkgRetryCheck
                      THEN retry_if_dpkg_locked(code, o) ELSE v
       IN  /\ run_cmd' = cmd
           /\ exit_code' = code
           /\ output' = o
           /\ run_verbosely' = verdict.retry_verbosely
           /\ try_count' = IF verdict.should_retry THEN try_count + 1 ELSE try_count
           /\ step' = IF verdict.should_retry THEN "loop" ELSE "final"
           /\ trail' = Append(trail, [cmd |-> cmd, exit_code |-> code, output |-> o,
                                      should_retry |-> verdict.should_retry,
                                      retry_verbosely |-> verdict.retry_verbosely,
                                      slept |-> verdict.should_retry])
    /\ UNCHANGED <<retries, retry_check, final_check>>

\* Line 1218: the loop's test fails.
RetriesExhausted ==
    /\ step = "loop"
    /\ ~WithinRetries(try_count, retries)
    /\ step' = "final"
    /\ UNCHANGED <<retries, retry_check, final_check, try_count, run_verbosely,
                   run_cmd, exit_code, output, trail>>

\* Lines 1231-1234: the final check, if any, and the return.
FinalCheck ==
    /\ step = "final"
    /\ exit_code' = IF final_check = DpkgFinalCheck
                    THEN final_check_if_dpkg_locked(exit_code, output)
                    ELSE exit_code
    /\ step' = "done"
    /\ UNCHANGED <<retries, retry_check, final_check, try_count, run_verbosely,
                   run_cmd, output, trail>>

\* The steps of a call under way: the command returns, time.sleep returns,
\* so a step that can be taken is taken.
RetryStep ==
    \/ \E code \in ExitCodes, o \in Outputs, v \in Verdicts :
           Invoke(code, o, v) /\ UNCHANGED <<prog, hist, launch, identity, returned, around>>
    \/ RetriesExhausted /\ UNCHANGED <<prog, hist, launch, identity, returned, around>>
    \/ FinalCheck /\ UNCHANGED <<prog, hist, launch, identity, returned, around>>

NextRetry ==
    \/ \E r \in 0..MaxRetries, chk \in RetryChecks, fin \in FinalChecks :
           RunCommandWithRetries(r, chk, fin) /\ UNCHANGED <<prog, hist, launch, identity, returned, around>>
    \/ RetryStep

\* The sub-agents take no part in a retried command: one initial state of
\* the watcher is enough.
InitRetry == Init /\ running = [a \in Agents |-> FALSE]

SpecRetry == InitRetry /\ [][NextRetry]_vars /\ WF_vars(RetryStep)

\* ------------------------------------------------ managed identity ---
\* guid_re.search(identifier_value), line 676-677: the pattern is found
\* somewhere in the value.
GuidReSearch(v) == v \in {Guid, GuidInside}

\* The value is a GUID from its first character to its last.
WholeGuid(v) == v = Guid

NoError == ""
BothRequired == "Parameters \"identifier-name\" and \"identifier-value\" are both required"
InvalidName == "Invalid identifier-name provided"
EmptyValue == "Invalid identifier-value provided; cannot be empty"
MustBeGuid == "Invalid identifier-value provided; must be a GUID"

Resolved(n, v, e) == [name |-> n, value |-> v, error |-> e]

\* Lines 649-680.
get_managed_identity(s) ==
    IF s.setting # ManagedIdentity THEN Resolved("", "", NoError)
    ELSE IF ~s.has_name \/ ~s.has_value THEN Resolved("", "", BothRequired)
    ELSE IF s.name \notin IdentifierNames THEN Resolved(s.name, s.value, InvalidName)
    ELSE IF s.value = "" THEN Resolved(s.name, s.value, EmptyValue)
    ELSE IF s.name \in {"object_id", "client_id"} /\ ~GuidReSearch(s.value)
         THEN Resolved(s.name, s.value, MustBeGuid)
    ELSE Resolved(s.name, s.value, NoError)

\* The identity read from the settings again at each issuance.
IdentityOfSettings ==
    <<get_managed_identity(public_settings).name,
      get_managed_identity(public_settings).value>>

\* Lines 852-854: the identity generate_MSI_token is called with.
IssuanceIdentity == <<identifier_name, identifier_value>>

\* Lines 751-759: the watcher starts: the identity is resolved, an error in
\* it is logged, and the loop is entered after the first sleep.
StartWatcher ==
    /\ pc = "startup"
    /\ identifier_name' = get_managed_identity(public_settings).name
    /\ identifier_value' = get_managed_identity(public_settings).value
    /\ error_msg' = get_managed_identity(public_settings).error
    /\ pc' = "read"
    /\ UNCHANGED <<data, last_crc, me_msi_token_expiry_epoch, telegraf_restart_retries,
                   me_restart_retries, running, now, calls, logged, token_file>>
    /\ UNCHANGED <<public_settings, issued_with, issuances>>

\* The settings of the extension are replaced while the watcher runs.
SettingsChange(s) ==
    /\ pc # "startup"
    /\ public_settings' = s
    /\ UNCHANGED <<identifier_name, identifier_value, error_msg, issued_with, issuances>>

\* A credential check: the identity its issuance, if any, was called with.
Parameterized ==
    /\ IF Len(calls') > Len(calls) /\ issuances < MaxIssuances
       THEN /\ issued_with' = issued_with \cup {IssuanceIdentity}
            /\ issuances' = issuances + 1
       ELSE UNCHANGED <<issued_with, issuances>>
    /\ UNCHANGED <<public_settings, identifier_name, identifier_value, error_msg>>

\* Settings the running watcher's ones can be replaced by.
LaterSettings ==
    {Unset(NoSettings),
     [setting |-> ManagedIdentity, has_name |-> TRUE, has_value |-> TRUE,
      name |-> "client_id", value |-> Guid]}

\* The watcher from its start, with any settings, an active configuration
\* on disk, no token cache file and no call that raises.
InitIdentity ==
    /\ pc = "startup"
    /\ data = NoData
    /\ last_crc = NoCrc
    /\ me_msi_token_expiry_epoch = NoneEpoch
    /\ telegraf_restart_retries = 0
    /\ me_restart_retries = 0
    /\ running = [a \in Agents |-> TRUE]
    /\ now = 0
    /\ calls = <<>>
    /\ logged = {}
    /\ token_file = NotLooked
    /\ prev_data = NoData
    /\ recorded = NoData
    /\ came_from = "other"
    /\ retry_due = FALSE
    /\ earlier = {}
    /\ down_run = [a \in Agents |-> 0]
    /\ LaunchInit
    /\ RetryInit
    /\ public_settings \in Settings
    /\ identifier_name = ""
    /\ identifier_value = ""
    /\ error_msg = ""
    /\ issued_with = {}
    /\ issuances = 0
    /\ returned = <<>>
    /\ AroundInit

NextIdentity ==
    \/ StartWatcher /\ UNCHANGED <<hist, launch, retrying, returned, around>>
    \/ ReadConfig(ActiveA) /\ UNCHANGED <<hist, launch, retrying, identity, returned, around>>
    \/ \E ok \in Outcomes(ReconcilePlan) :
           Reconcile(0, ok) /\ UNCHANGED <<hist, launch, retrying, identity, returned, around>>
    \/ \E res \in IssuanceResults(now) :
           Credential(TokenFileAbsent, res) /\ Parameterized
               /\ UNCHANGED <<hist, launch, retrying, returned, around>>
    \/ \E ok \in Outcomes(RestartPlan(Telegraf)) :
           LivenessTelegraf(0, ok) /\ UNCHANGED <<hist, launch, retrying, identity, returned, around>>
    \/ \E ok \in Outcomes(RestartPlan(Me)) :
           LivenessMe(0, ok) /\ UNCHANGED <<hist, launch, retrying, identity, returned, around>>
    \/ \E t \in Times : Sleep(t) /\ UNCHANGED <<hist, launch, retrying, identity, returned, around>>
    \/ \E s \in LaterSettings :
           SettingsChange(s) /\ UNCHANGED <<prog, hist, launch, retrying, returned, around>>

SpecIdentity == InitIdentity /\ [][NextIdentity]_vars

\* ------------------------------------------- what the calls return ---
\* The watcher in its full environment, with what its stop and start calls
\* returned kept beside the call log.
Result(c, came_back, ok) ==
    IF c[2] \in {"stop", "start"} /\ came_back
    THEN (IF ok[c] THEN "ok" ELSE "not_ok")
    ELSE "-"

\* A step whose raised-th call raised (0: none) and whose stop and start
\* calls returned ok[c].
Reported(raised, ok) ==
    returned' = returned \o
        [i \in 1..(Len(calls') - Len(calls)) |->
            Result(calls'[Len(calls) + i], raised = 0 \/ i < raised, ok)]

NoOutcome == <<>>

NextReturns ==
    \/ \E c \in FileStates :
           ReadConfig(c) /\ Reported(0, NoOutcome)
               /\ UNCHANGED <<hist, launch, retrying, identity, around>>
    \/ \E r \in 0..MaxPlan, ok \in Outcomes(ClearedPlan(running)) :
           ClearedConfig(r, ok) /\ Reported(r, ok)
               /\ UNCHANGED <<hist, launch, retrying, identity, around>>
    \/ \E r \in 0..MaxPlan, ok \in Outcomes(ReconcilePlan) :
           Reconcile(r, ok) /\ Reported(r, ok)
               /\ UNCHANGED <<hist, launch, retrying, identity, around>>
    \/ \E tf \in TokenFileStates, res \in IssuanceOutcomes(now) :
           Credential(tf, res) /\ Reported(0, NoOutcome)
               /\ UNCHANGED <<hist, launch, retrying, identity, around>>
    \/ \E r \in 0..MaxPlan, ok \in Outcomes(RestartPlan(Telegraf)) :
           LivenessTelegraf(r, ok) /\ Reported(r, ok)
               /\ UNCHANGED <<hist, launch, retrying, identity, around>>
    \/ \E r \in 0..MaxPlan, ok \in Outcomes(RestartPlan(Me)) :
           LivenessMe(r, ok) /\ Reported(r, ok)
               /\ UNCHANGED <<hist, launch, retrying, identity, around>>
    \/ \E t \in Times :
           Sleep(t) /\ returned' = <<>> /\ UNCHANGED <<hist, launch, retrying, identity, around>>
    \/ \E a \in Agents : ProcessChange(a) /\ UNCHANGED <<hist, aside>>

SpecReturns == Init /\ [][NextReturns]_vars

\* --------------------------------------------- the polls in a row ---
\* The watcher with its last three polls kept: the configuration file is
\* missing, holds an object with no counter or holds one active content;
\* the set-up and tear-down calls return or raise, the token is long-lived
\* and the sub-agents' processes come and go.

\* What a cycle's calls did to the sub-agents: the whole set-up of lines
\* 808-823, a removal of lines 781 or 794, or neither.
Deed(s) ==
    IF Len(s) >= Len(ReconcilePlan) /\ Take(s, Len(ReconcilePlan)) = ReconcilePlan
    THEN "set_up"
    ELSE IF \E a \in Agents : In(s, Call(a, "remove")) THEN "torn_down"
    ELSE "-"

\* A poll joins the history, which keeps the two polls before it.
Remembered(c) ==
    polls' = (IF Len(polls) < 2 THEN polls ELSE SubSeq(polls, Len(polls) - 1, Len(polls)))
                 \o <<[read |-> c, did |-> "-"]>>

\* The end of a cycle: what it did is put beside what it read.
Noted == polls' = [polls EXCEPT ![Len(polls)].did = Deed(calls)]

NextPolls ==
    \/ \E c \in {Absent, ZeroCounters, ActiveA} :
           ReadConfig(c) /\ Remembered(c)
               /\ UNCHANGED <<hist, launch, retrying, identity, returned, stopping, handling>>
    \/ \E r \in 0..MaxPlan, ok \in Outcomes(ClearedPlan(running)) :
           ClearedConfig(r, ok) /\ UNCHANGED hist /\ UNCHANGED aside
    \/ \E r \in 0..MaxPlan, ok \in Outcomes(ReconcilePlan) :
           Reconcile(r, ok) /\ UNCHANGED hist /\ UNCHANGED aside
    \/ Credential(TokenFileAbsent, LongLived(now)) /\ UNCHANGED hist /\ UNCHANGED aside
    \/ \E ok \in Outcomes(RestartPlan(Telegraf)) :
           LivenessTelegraf(0, ok) /\ UNCHANGED hist /\ UNCHANGED aside
    \/ \E ok \in Outcomes(RestartPlan(Me)) :
           LivenessMe(0, ok) /\ UNCHANGED hist /\ UNCHANGED aside
    \/ \E t \in Times :
           Sleep(t) /\ Noted
               /\ UNCHANGED <<hist, launch, retrying, identity, returned, stopping, handling>>
    \/ \E a \in Agents : ProcessChange(a) /\ UNCHANGED hist /\ UNCHANGED aside

SpecPolls == Init /\ [][NextPolls]_vars

\* --------------------------------------- disable beside the watcher ---
\* disable (line 620) calls stop_metrics_process while the watcher process
\* that metrics() recorded in amametrics.pid goes through its cycles on an
\* active configuration.  stop_metrics_process stops and removes each
\* sub-agent it finds running (lines 684-710) and only then reads the pid
\* file, kills the pids in it and removes it (lines 712-727).  The steps of
\* the two processes interleave freely; no call raises and nothing but the
\* two processes touches the sub-agents.
WatcherPid == 1

InitDisable ==
    /\ pc = "read"
    /\ data = NoData
    /\ last_crc = NoCrc
    /\ me_msi_token_expiry_epoch = NoneEpoch
    /\ telegraf_restart_retries = 0
    /\ me_restart_retries = 0
    /\ running \in [Agents -> BOOLEAN]
    /\ now = 0
    /\ calls = <<>>
    /\ logged = {}
    /\ token_file = NotLooked
    /\ prev_data = NoData
    /\ recorded = NoData
    /\ came_from = "other"
    /\ retry_due = FALSE
    /\ earlier = {}
    /\ down_run = [a \in Agents |-> 0]
    /\ alive = {WatcherPid}
    /\ pid_file = WatcherPid
    /\ written = {WatcherPid}
    /\ spawned = 1
    /\ caller = [k \in Callers |-> [pc |-> "idle", pids |-> {}]]
    /\ RetryInit
    /\ IdentityInit
    /\ returned = <<>>
    /\ AroundInit

\* A step of the watcher, which runs as long as its process has not been
\* killed: the sub-agents that stop_metrics_process had stopped and that
\* the step brings up.
Brought ==
    /\ restarted' = restarted \cup {a \in stopped : running'[a] /\ ~running[a]}
    /\ UNCHANGED <<stop_pc, stop_pids, stopped>>

\* Line 620: disable calls stop_metrics_process.
DisableCalled ==
    /\ stop_pc = "idle"
    /\ stop_pc' = Telegraf
    /\ UNCHANGED <<stop_pids, stopped, restarted>>

\* Lines 684-697 for telegraf, 699-710 for me: a sub-agent found running is
\* stopped, which succeeds or not, and removed.
StopSubAgent(a, ok) ==
    /\ stop_pc = a
    /\ running' = [running EXCEPT ![a] = @ /\ ~ok]
    /\ stopped' = IF running[a] /\ ok THEN stopped \cup {a} ELSE stopped
    /\ stop_pc' = IF a = Telegraf THEN Me ELSE "pid_file"
    /\ UNCHANGED <<stop_pids, restarted>>
    /\ UNCHANGED <<pc, data, last_crc, me_msi_token_expiry_epoch, telegraf_restart_retries,
                   me_restart_retries, now, calls, logged, token_file>>

\* Lines 712-717: the pid file is looked for and read.
StopReadsPidFile ==
    /\ stop_pc = "pid_file"
    /\ IF pid_file = NoPidFile
       THEN stop_pc' = "done" /\ UNCHANGED stop_pids
       ELSE stop_pc' = "kill" /\ stop_pids' = {pid_file}
    /\ UNCHANGED <<stopped, restarted>>

\* Lines 718-725: kill of each pid read.
StopKills ==
    /\ stop_pc = "kill"
    /\ alive' = alive \ stop_pids
    /\ stop_pc' = "rm"
    /\ UNCHANGED <<stop_pids, stopped, restarted>>
    /\ UNCHANGED <<pid_file, written, spawned, caller>>

\* Line 727: rm amametrics.pid.
StopRemovesPidFile ==
    /\ stop_pc = "rm"
    /\ pid_file' = NoPidFile
    /\ stop_pc' = "done"
    /\ UNCHANGED <<stop_pids, stopped, restarted>>
    /\ UNCHANGED <<alive, written, spawned, caller>>

NextDisable ==
    \/ ReadConfig(ActiveA) /\ WatcherPid \in alive /\ Brought
           /\ UNCHANGED <<hist, launch, retrying, identity, returned, polls, handling>>
    \/ \E ok \in Outcomes(ReconcilePlan) :
           Reconcile(0, ok) /\ WatcherPid \in alive /\ Brought
               /\ UNCHANGED <<hist, launch, retrying, identity, returned, polls, handling>>
    \/ Credential(TokenFileAbsent, LongLived(now)) /\ WatcherPid \in alive /\ Brought
           /\ UNCHANGED <<hist, launch, retrying, identity, returned, polls, handling>>
    \/ \E ok \in Outcomes(RestartPlan(Telegraf)) :
           LivenessTelegraf(0, ok) /\ WatcherPid \in alive /\ Brought
               /\ UNCHANGED <<hist, launch, retrying, identity, returned, polls, handling>>
    \/ \E ok \in Outcomes(RestartPlan(Me)) :
           LivenessMe(0, ok) /\ WatcherPid \in alive /\ Brought
               /\ UNCHANGED <<hist, launch, retrying, identity, returned, polls, handling>>
    \/ \E t \in Times :
           Sleep(t) /\ WatcherPid \in alive /\ Brought
               /\ UNCHANGED <<hist, launch, retrying, identity, returned, polls, handling>>
    \/ DisableCalled
           /\ UNCHANGED <<prog, hist, launch, retrying, identity, returned, polls, handling>>
    \/ \E a \in Agents, ok \in BOOLEAN :
           StopSubAgent(a, ok)
               /\ UNCHANGED <<hist, launch, retrying, identity, returned, polls, handling>>
    \/ StopReadsPidFile
           /\ UNCHANGED <<prog, hist, launch, retrying, identity, returned, polls, handling>>
    \/ StopKills
           /\ UNCHANGED <<prog, hist, retrying, identity, returned, polls, handling>>
    \/ StopRemovesPidFile
           /\ UNCHANGED <<prog, hist, retrying, identity, returned, polls, handling>>

SpecDisable == InitDisable /\ [][NextDisable]_vars

\* ------------------------------------------------ main and enable ---
MissingorInvalidParameterErrorCode == 53
UnsupportedOperatingSystem == 51
\* The exit code of line 226 (low disk space) and of line 1191 (an output
\* with "Permission denied").
LowDiskSpaceCode == 52
PermissionDeniedCode == 52

\* sys.argv[1]: dashes or slashes in front of a word; or no argument.
Options ==
    [lead : {"", "-", "/"},
     word : {"disable", "uninstall", "install", "enable", "update", "metrics", "arc",
             "status", "Enable"}] \cup {NoOption}

\* Lines 152-166: re.match of ^([-/]*)(name) for each name in turn; a
\* missing argument raises IndexError, which line 167 catches.
MatchOperation(o) ==
    IF o = NoOption THEN NoOperation
    ELSE IF o.word = "disable" THEN "Disable"
    ELSE IF o.word = "uninstall" THEN "Uninstall"
    ELSE IF o.word = "install" THEN "Install"
    ELSE IF o.word = "enable" THEN "Enable"
    ELSE IF o.word = "update" THEN "Update"
    ELSE IF o.word = "metrics" THEN "Metrics"
    ELSE IF o.word = "arc" THEN "Arc"
    ELSE NoOperation

\* Lines 931-937: the keys of the operations dictionary.
operations == {"Disable", "Uninstall", "Install", "Enable", "Update", "Metrics"}

\* Line 178.
destructive_operations == {"Disable", "Uninstall"}

\* Every operation behind the disk-space check.
GatedAlways(op) == TRUE

\* Line 179.
Gated(op) == op \notin destructive_operations

\* Lines 222-231: get_free_space_mb finds 500 MB or more, or less, or
\* raises; /var, /etc and /opt are looked at in this order up to the
\* first one below 500 MB; an exception on the way gives 0.
RECURSIVE DiskCheckFrom(_, _)
DiskCheckFrom(f, i) ==
    IF i > Len(Mounts) THEN 0
    ELSE IF f[i] = "low" THEN LowDiskSpaceCode
    ELSE IF f[i] = "raises" THEN 0
    ELSE DiskCheckFrom(f, i + 1)

check_disk_space_availability(f) == DiskCheckFrom(f, 1)

\* main is entered with any argument, any state of the three mounts and
\* either answer of the settings sequence number.
InitMain ==
    /\ pc = "read"
    /\ data = NoData
    /\ last_crc = NoCrc
    /\ me_msi_token_expiry_epoch = NoneEpoch
    /\ telegraf_restart_retries = 0
    /\ me_restart_retries = 0
    /\ running = [a \in Agents |-> FALSE]
    /\ now = 0
    /\ calls = <<>>
    /\ logged = {}
    /\ token_file = NotLooked
    /\ prev_data = NoData
    /\ recorded = NoData
    /\ came_from = "other"
    /\ retry_due = FALSE
    /\ earlier = {}
    /\ down_run = [a \in Agents |-> 0]
    /\ LaunchInit
    /\ RetryInit
    /\ IdentityInit
    /\ returned = <<>>
    /\ polls = <<>>
    /\ stop_pc = "idle"
    /\ stop_pids = {}
    /\ stopped = {}
    /\ restarted = {}
    /\ main_pc = "argv"
    /\ option \in Options
    /\ operation = NoOperation
    /\ free_space_mb \in [1..Len(Mounts) -> {"enough", "low", "raises"}]
    /\ HUtilObject = NoHUtil
    /\ seq_smaller \in BOOLEAN
    /\ main_exit_code = NoExitCode
    /\ invoked = <<>>
    /\ start_command = NotRun

\* log_and_exit (lines 1548-1566): the process ends with this code.
Exits(code) ==
    /\ main_exit_code' = code
    /\ main_pc' = "exited"

\* Lines 150-171.
Match ==
    /\ main_pc = "argv"
    /\ operation' = MatchOperation(option)
    /\ IF operation' = NoOperation THEN Exits(1)
       ELSE main_pc' = "gate" /\ UNCHANGED main_exit_code
    /\ UNCHANGED <<option, free_space_mb, HUtilObject, seq_smaller, invoked, start_command>>

\* Lines 177-183.
DiskGate ==
    /\ main_pc = "gate"
    /\ IF Gated(operation) /\ check_disk_space_availability(free_space_mb) # 0
       THEN Exits(check_disk_space_availability(free_space_mb))
       ELSE main_pc' = "invoke" /\ UNCHANGED main_exit_code
    /\ UNCHANGED <<option, operation, free_space_mb, HUtilObject, seq_smaller, invoked,
                   start_command>>

\* Lines 188 and 940-959: with the Utils modules imported a HandlerUtility
\* is made and parses the context, which can raise KeyError, turned into
\* ParameterMissingException and caught at line 206; without them the
\* handler stays None.
ParseContext(imported, key_error) ==
    /\ main_pc = "invoke"
    /\ invoked' = invoked \o <<"parse_context">>
    /\ IF imported /\ key_error
       THEN Exits(MissingorInvalidParameterErrorCode) /\ UNCHANGED HUtilObject
       ELSE /\ HUtilObject' = IF imported THEN HUtil ELSE NoHUtil
            /\ main_pc' = "dispatch"
            /\ UNCHANGED main_exit_code
    /\ UNCHANGED <<option, operation, free_space_mb, seq_smaller, start_command>>

\* Line 189 for an operation other than Enable: the dictionary lookup raises
\* KeyError for a name that is no key, caught at line 209; the handler found
\* returns an exit code, or raises, also caught at line 209.
Dispatch(res) ==
    /\ main_pc = "dispatch"
    /\ operation # "Enable"
    /\ IF operation \notin operations
       THEN Exits(1) /\ UNCHANGED invoked
       ELSE /\ invoked' = invoked \o <<operation>>
            /\ Exits(IF res = "0" THEN 0 ELSE 1)
    /\ UNCHANGED <<option, operation, free_space_mb, HUtilObject, seq_smaller, start_command>>

\* run_command_and_log (lines 1176-1196): the exit code of the command,
\* replaced when its output has "Permission denied" in it.
run_command_and_log(code, denied) == IF denied THEN PermissionDeniedCode ELSE code

\* The calls enable makes, lines 580-610, when the command exits with code
\* and its output has (denied) or has not "Permission denied" in it.
EnableCalls(supported, code, denied) ==
    IF HUtilObject # NoHUtil /\ seq_smaller THEN <<"is_seq_smaller">>
    ELSE (IF HUtilObject # NoHUtil THEN <<"is_seq_smaller">> ELSE <<>>)
         \o <<"exit_if_vm_not_supported">>
         \o (IF ~supported THEN <<>>
             ELSE <<"AMAServiceStartCommand">>
                  \o (IF run_command_and_log(code, denied) = 0
                      THEN <<"start_metrics_process">>
                           \o (IF HUtilObject # NoHUtil THEN <<"save_seq">> ELSE <<>>)
                      ELSE <<"AMAServiceStatusCommand">>))

\* Line 189 for Enable, with enable (lines 571-610) to its end: the gate on
\* the sequence number, the exit of an unsupported VM (line 1091), the
\* service start command, and after an exit code 0 start_metrics_process
\* and save_seq, the latter an attribute of None (caught at line 209) when
\* there is no handler.
Enable(supported, code, denied) ==
    /\ main_pc = "dispatch"
    /\ operation = "Enable"
    /\ invoked' = invoked \o <<"Enable">> \o EnableCalls(supported, code, denied)
    /\ start_command' = IF In(EnableCalls(supported, code, denied), "AMAServiceStartCommand")
                        THEN [code |-> code, denied |-> denied] ELSE NotRun
    /\ Exits(IF HUtilObject # NoHUtil /\ seq_smaller THEN 0
             ELSE IF ~supported THEN UnsupportedOperatingSystem
             ELSE IF run_command_and_log(code, denied) = 0 /\ HUtilObject = NoHUtil THEN 1
             ELSE run_command_and_log(code, denied))
    /\ UNCHANGED <<option, operation, free_space_mb, HUtilObject, seq_smaller>>

NextMain ==
    \/ Match /\ UNCHANGED <<prog, hist, launch, retrying, identity, returned, polls, stopping>>
    \/ DiskGate /\ UNCHANGED <<prog, hist, launch, retrying, identity, returned, polls, stopping>>
    \/ \E imported \in BOOLEAN, key_error \in BOOLEAN :
           ParseContext(imported, key_error)
               /\ UNCHANGED <<prog, hist, launch, retrying, identity, returned, polls, stopping>>
    \/ \E res \in {"0", "1", "raise"} :
           Dispatch(res)
               /\ UNCHANGED <<prog, hist, launch, retrying, identity, returned, polls, stopping>>
    \/ \E supported \in BOOLEAN, code \in ExitCodes, denied \in BOOLEAN :
           Enable(supported, code, denied)
               /\ UNCHANGED <<prog, hist, launch, retrying, identity, returned, polls, stopping>>

SpecMain == InitMain /\ [][NextMain]_vars

\* ------------------------------------------------ reading a cycle ---
Active(d) == Classify(d) = "active"

\* The call made right after the first call c of this cycle, if any.
Follows(c, d) ==
    LET i == IndexOf(calls, c)
    IN  i > 0 /\ Len(calls) > i /\ calls[i + 1] = d

\* This cycle's liveness pass has called is_running of a and gone on.
LivenessChecked(a) ==
    /\ Active(data)
    /\ In(calls, Call(a, "is_running"))
    /\ \/ calls[Len(calls)] # Call(a, "is_running")
       \/ pc \in {"liveness_me", "sleep"} /\ "exception" \notin logged

\* This cycle's liveness pass has attempted a restart of a: stop, then start.
RestartAttempted(a) ==
    /\ Active(data)
    /\ Follows(Call(a, "is_running"), Call(a, "stop"))

Retries(a) == IF a = Telegraf THEN telegraf_restart_retries ELSE me_restart_retries

\* ------------------------------------------------------------ claims ---

\* C1: over a run of consecutive cycles whose liveness check reports a
\* sub-agent not running, at most max_restart_retries (10) restarts of it are
\* attempted: from the 11th such cycle on no stop/start is issued and the
\* terminal diagnostic is logged instead.
C1_RestartBudget ==
    \A a \in Agents :
        /\ RestartAttempted(a) => down_run[a] <= max_restart_retries
        /\ (LivenessChecked(a) /\ down_run[a] > max_restart_retries) => "terminal" \in logged

\* C2: after n consecutive not-running cycles (n <= 10) the sub-agent's
\* counter is n: it is 0 when the liveness check reports running, one more
\* per attempted restart, and keeps its value from one cycle to the next.
C2_CounterCountsRun ==
    \A a \in Agents :
        (LivenessChecked(a) /\ down_run[a] <= max_restart_retries)
            => Retries(a) = down_run[a]

\* The watcher takes the step that starts at position p.
StepFrom(p) == pc = p /\ pc' # p

IsPrefix(s, t) == Len(s) <= Len(t) /\ s = Take(t, Len(s))

HandleConfig == Call(Telegraf, "handle_config")

Readings == [Agents -> BOOLEAN]

C4_Original ==
    (data = prev_data /\ data # NoData) => LifecycleCalls(calls) = {}

\* The calls of a liveness pass in which the is_running calls return r.
LivenessPassPlan(r) == LivenessPlan(r, Telegraf, 0) \o LivenessPlan(r, Me, 0)

\* C4 (amended): a cycle that polls the file unchanged makes no set-up call
\* once the content's fingerprint is recorded; what it calls is: nothing for
\* an absent, empty or unparsable file; for a zero-counter object the
\* is_running checks and stop+remove of a sub-agent found running; for an
\* active one the token issuance if due, the is_running checks and stop+start
\* of a sub-agent found not running.
C4_UnchangedPoll ==
    /\ [][(StepFrom("reconcile") /\ data = prev_data /\ data = recorded)
             => calls' = calls]_vars
    /\ [](  (data = prev_data /\ data # NoData) =>
              /\ Classify(data) \in {"skip", "raise"} => calls = <<>>
              /\ Classify(data) = "cleared" =>
                    \E r \in Readings : IsPrefix(calls, ClearedPlan(r))
              /\ (Active(data) /\ ~In(calls, HandleConfig)) =>
                    \E r \in Readings, g \in {<<>>, <<Call(Me, "generate_MSI_token")>>} :
                        IsPrefix(calls, g \o LivenessPassPlan(r)))

C4_Witness ==
    /\ pc = "sleep"
    /\ data = ActiveA
    /\ prev_data = ActiveA
    /\ calls = LivenessPassPlan([a \in Agents |-> TRUE])

Added == SubSeq(calls', Len(calls) + 1, Len(calls'))

SetUpAndStart == {HandleConfig, Call(Me, "setup_me"), Call(Telegraf, "start"), Call(Me, "start")}

\* C7 (as stated): once the file has gone from absent to an active
\* configuration and stays byte-identical, each set-up call and each
\* sub-agent's start is made exactly once over all the cycles.
C7_Original ==
    (Active(data) /\ came_from = "absent") =>
        \A c \in SetUpAndStart :
            Count(calls, c) + (IF c \in earlier THEN 1 ELSE 0) <= 1

\* C7 (amended): the reconciliation makes each set-up call and each start
\* once and, once it has run to its end, is not repeated while the bytes
\* stay the same; every liveness check that finds a sub-agent not running,
\* the one of the reconciling cycle included, calls that sub-agent's stop
\* and start once more, and a check that finds it running calls neither.
C7_StartOncePlusRestarts ==
    /\ [][StepFrom("reconcile") =>
             /\ data = recorded => Added = <<>>
             /\ data # recorded => IsPrefix(Added, ReconcilePlan)
             /\ (data # recorded /\ "exception" \notin logged') => Added = ReconcilePlan]_vars
    /\ [][StepFrom("credential") => LifecycleCalls(Added) = {}]_vars
    /\ [][StepFrom("liveness_telegraf") =>
             /\ running[Telegraf] => IsPrefix(Added, <<Call(Telegraf, "is_running")>>)
             /\ ~running[Telegraf] =>
                    IsPrefix(Added, <<Call(Telegraf, "is_running")>> \o RestartPlan(Telegraf))
             /\ (~running[Telegraf] /\ "exception" \notin logged') =>
                    Count(Added, Call(Telegraf, "start")) = 1]_vars
    /\ [][StepFrom("liveness_me") =>
             /\ running[Me] => IsPrefix(Added, <<Call(Me, "is_running")>>)
             /\ ~running[Me] => IsPrefix(Added, <<Call(Me, "is_running")>> \o RestartPlan(Me))
             /\ (~running[Me] /\ "exception" \notin logged') =>
                    Count(Added, Call(Me, "start")) = 1]_vars

C7_Witness ==
    /\ pc = "sleep"
    /\ Active(data)
    /\ came_from = "absent"
    /\ data = prev_data
    /\ Call(Telegraf, "start") \in earlier
    /\ HandleConfig \in earlier
    /\ calls = LivenessPassPlan([a \in Agents |-> a = Me])

GenerateCall == Call(Me, "generate_MSI_token")

\* C8: in a cycle's credential check the token issuance is called if and
\* only if no expiry is cached or now >= expiry - 1800 s.
C8_RefreshIff ==
    [][StepFrom("credential") =>
          (In(Added, GenerateCall) <=>
               \/ NoExpiryCached(me_msi_token_expiry_epoch)
               \/ now >= me_msi_token_expiry_epoch - RefreshMarginSeconds)]_vars

\* Two values of the cached expiry that stand for the same credential:
\* None and "" both mean that nothing is cached.
SameCredential(e, f) == e = f \/ (NoExpiryCached(e) /\ NoExpiryCached(f))

\* C9: a token issuance that fails leaves the cached expiry as it was.
C9_FailureKeepsExpiry ==
    [][(StepFrom("credential") /\ "token_failed" \in logged') =>
          SameCredential(me_msi_token_expiry_epoch', me_msi_token_expiry_epoch)]_vars

\* C10: after a failed issuance, each later cycle of the still active
\* configuration attempts the issuance again until one succeeds.
C10_RetryEveryCycle ==
    [][(StepFrom("credential") /\ retry_due) => In(Added, GenerateCall)]_vars

\* C11: in every cycle that reconciles an active configuration with a
\* changed fingerprint the cached expiry is reset, and the credential check
\* of that cycle calls the token issuance, whatever expiry was cached before
\* and whatever the token cache file holds.
C11_ResetAndIssue ==
    /\ [][(StepFrom("reconcile") /\ In(Added, HandleConfig)) =>
             me_msi_token_expiry_epoch' = NoneEpoch]_vars
    /\ [][(StepFrom("credential") /\ IsPrefix(ReconcilePlan, calls)) =>
             In(Added, GenerateCall)]_vars

\* The calls an active cycle can have made, in their order, the is_running
\* calls of the liveness pass returning r: the set-up, the issuance, then
\* the liveness pass.
CycleOrders(r) ==
    {s \o g \o LivenessPassPlan(r) :
        s \in {<<>>, ReconcilePlan}, g \in {<<>>, <<GenerateCall>>}}

IsRunningCalls == {Call(a, "is_running") : a \in Agents}

\* C12: within one cycle every reconciliation call precedes the credential
\* check and the token issuance, which precede every call of the liveness
\* pass: no call is made before the reconciliation, none but the set-up
\* calls before the credential check, no liveness call before the
\* credential check is over, and the calls of the cycle are in that order.
C12_StepsOrdered ==
    /\ pc \in {"read", "reconcile", "cleared"} => calls = <<>>
    /\ pc = "credential" => calls \in {<<>>, ReconcilePlan}
    /\ pc = "liveness_telegraf" =>
           \A i \in 1..Len(calls) : calls[i] \notin IsRunningCalls
    /\ Active(data) =>
           \/ \E k \in 0..Len(ReconcilePlan) : calls = Take(ReconcilePlan, k)
           \/ \E r \in Readings : \E s \in CycleOrders(r) : IsPrefix(calls, s)

C12_Witness ==
    /\ pc = "sleep"
    /\ "exception" \notin logged
    /\ calls = ReconcilePlan \o <<GenerateCall>>
                 \o LivenessPassPlan([a \in Agents |-> a = Me])

\* C13: every cycle whose poll reads an active configuration, reconciled or
\* not and whatever the cached expiry and the token cache file are, goes
\* through the liveness pass: unless a call on a handler raises, the
\* credential check is followed by the is_running check of telegraf and
\* then of MetricsExtension, each followed by stop and start when it
\* reports not running.
C13_LivenessEveryActiveCycle ==
    /\ [][(StepFrom("credential")
             /\ ~(In(Added, GenerateCall) /\ "exception" \in logged'))
            => pc' = "liveness_telegraf"]_vars
    /\ [][(StepFrom("liveness_telegraf") /\ "exception" \notin logged') =>
             /\ pc' = "liveness_me"
             /\ Added = LivenessPlan(running, Telegraf, 0)]_vars
    /\ [][(StepFrom("liveness_me") /\ "exception" \notin logged') =>
             Added = LivenessPlan(running, Me, 0)]_vars

\* The positions of the watcher inside a cycle, the sleep excluded.
Working == {"cleared", "reconcile", "credential", "liveness_telegraf", "liveness_me"}

\* C14: the loop never ends by itself: in every state the watcher has a
\* step to take; whatever a step returns or raises, the cycle gets to the
\* sleep and the sleep is followed by the next poll; a poll that cannot
\* read or parse the file and a step cut short by a raising call log an
\* error; and the only way into the next cycle is the one sleep at the end
\* of the cycle.
C14_LoopNeverEnds ==
    /\ [](ENABLED WatcherStep)
    /\ []<>(pc = "sleep")
    /\ []<>(pc = "read")
    /\ [][pc' = "read" => pc \in {"read", "sleep"}]_vars
    /\ [][pc = "sleep" => pc' \in {"sleep", "read"}]_vars
    /\ [][(StepFrom("read") /\ data' \in {InvalidJson, Unreadable}) =>
             (pc' = "sleep" /\ "exception" \in logged')]_vars
    /\ [][(pc \in {"reconcile", "credential", "liveness_telegraf"} /\ pc' = "sleep") =>
             "exception" \in logged']_vars
    /\ [][((pc = "cleared" \/ pc = "liveness_me") /\ pc' # pc) => pc' = "sleep"]_vars
    /\ [][(StepFrom("credential") /\ "token_failed" \in logged') =>
             pc' = "liveness_telegraf"]_vars

C14_Witness ==
    /\ pc = "read"
    /\ data = Unreadable
    /\ now > 0
    /\ me_msi_token_expiry_epoch = EmptyEpoch

\* C15: a cycle whose poll reads content that is not valid JSON logs an
\* error and ends there: it makes no call on a handler and no token
\* issuance, leaves last_crc, the cached expiry and both restart counters as
\* they were, and the next poll follows the sleep.
C15_InvalidJsonEndsCycle ==
    /\ [][(StepFrom("read") /\ data' = InvalidJson) =>
             /\ pc' = "sleep"
             /\ "exception" \in logged'
             /\ calls' = <<>>
             /\ UNCHANGED <<last_crc, me_msi_token_expiry_epoch,
                            telegraf_restart_retries, me_restart_retries>>]_vars
    /\ [][(pc = "sleep" /\ data = InvalidJson) =>
             /\ pc' \in {"sleep", "read"}
             /\ calls' = <<>>
             /\ UNCHANGED <<last_crc, me_msi_token_expiry_epoch,
                            telegraf_restart_retries, me_restart_retries>>]_vars

C15_Witness ==
    /\ pc = "sleep"
    /\ data = InvalidJson
    /\ logged = {"exception"}
    /\ calls = <<>>
    /\ last_crc = Fingerprint(ActiveA)
    /\ me_msi_token_expiry_epoch > 0
    /\ telegraf_restart_retries = 1

\* C16: MetricsExtension's liveness check does not depend on telegraf's:
\* whether telegraf was found running or was restarted, and whatever its
\* start returned, the same cycle calls is_running of MetricsExtension and,
\* when that reports not running, its stop and start; the check of one
\* sub-agent changes the other's counter by nothing but the reset that
\* opens the pass.
C16_LivenessIndependent ==
    /\ [][(StepFrom("liveness_telegraf") /\ "exception" \notin logged') =>
             /\ pc' = "liveness_me"
             /\ me_restart_retries' = 0]_vars
    /\ [][StepFrom("liveness_me") =>
             /\ UNCHANGED telegraf_restart_retries
             /\ Len(Added) > 0 /\ Added[1] = Call(Me, "is_running")
             /\ "exception" \notin logged' =>
                    /\ Added = <<Call(Me, "is_running")>>
                                 \o (IF running[Me] THEN <<>> ELSE RestartPlan(Me))
                    /\ me_restart_retries' = (IF running[Me] THEN 0 ELSE 1)]_vars

C16_Witness ==
    /\ pc = "sleep"
    /\ "exception" \notin logged
    /\ ~running[Telegraf]
    /\ telegraf_restart_retries = 1
    /\ me_restart_retries = 1
    /\ \E s \in {<<>>, <<GenerateCall>>} :
           calls = s \o LivenessPassPlan([a \in Agents |-> FALSE])

\* C17: a cycle whose poll finds no configuration file raises and logs no
\* error and reconciles nothing: it makes no call on either sub-agent's
\* handler, and last_crc, the cached expiry and the sub-agents are left as
\* they were.
C17_AbsentFileDoesNothing ==
    /\ [][(StepFrom("read") /\ data' = Absent) =>
             /\ pc' = "sleep"
             /\ logged' = {}
             /\ calls' = <<>>
             /\ UNCHANGED <<last_crc, me_msi_token_expiry_epoch, running>>]_vars
    /\ [][(pc = "sleep" /\ data = Absent /\ pc' # pc) =>
             /\ pc' = "read"
             /\ UNCHANGED <<last_crc, me_msi_token_expiry_epoch, running>>]_vars
    /\ [](data = Absent => (calls = <<>> /\ logged = {} /\ pc \in {"read", "sleep"}))

C17_Witness ==
    /\ pc = "sleep"
    /\ data = Absent
    /\ Active(prev_data)
    /\ last_crc = Fingerprint(prev_data)
    /\ me_msi_token_expiry_epoch > 0
    /\ running = [a \in Agents |-> TRUE]
    /\ calls = <<>>
    /\ logged = {}

\* C18: after any sequence of start_metrics_process calls, back to back or
\* overlapping, at most one watcher process is alive once no call is under
\* way.
C18_SingleInstance ==
    (\A k \in Callers : At(k, "idle")) => Cardinality(alive) <= 1

\* The invocations of the command made by the call under way.
Invocations == Len(trail)

Returning == step \in {"final", "done"}

\* C19: run_command_with_retries_output always returns; it invokes the
\* command at most retries + 1 times, goes on only after an invocation whose
\* retry_check asked for a retry, stops at the first one that did not, and
\* invokes it exactly retries + 1 times when every retry_check asked for a
\* retry.
C19_RetryLoopBounded ==
    /\ [](Invocations <= retries + 1)
    /\ [](\A i \in 1..(Invocations - 1) : trail[i].should_retry)
    /\ [](Returning =>
            /\ Invocations >= 1
            /\ ~trail[Invocations].should_retry \/ Invocations = retries + 1
            /\ (\A i \in 1..Invocations : trail[i].should_retry) =>
                   Invocations = retries + 1)
    /\ (step = "loop") ~> (step = "done")

C19_Witness ==
    /\ step = "done"
    /\ retry_check = AnyCheck
    /\ retries = MaxRetries
    /\ Invocations = MaxRetries + 1
    /\ \A i \in 1..Invocations : trail[i].should_retry

\* An invocation failed with the package-lock signature.
ShowsLock(t) == t.exit_code # 0 /\ t.output = LockedOutput

\* C20: with retry_if_dpkg_locked and final_check_if_dpkg_locked, a command
\* whose every invocation fails with the package-lock signature is invoked
\* retries + 1 times and the call returns 56; when the last invocation does
\* not show the signature, or exits 0, the call returns that invocation's
\* exit code.
C20_DpkgLockedCode ==
    (step = "done" /\ retry_check = DpkgRetryCheck /\ final_check = DpkgFinalCheck) =>
        /\ (\A i \in 1..Invocations : ShowsLock(trail[i])) =>
               (Invocations = retries + 1 /\ exit_code = DPKGLockedErrorCode)
        /\ ~ShowsLock(trail[Invocations]) => exit_code = trail[Invocations].exit_code

C20_Witness ==
    /\ step = "done"
    /\ retry_check = DpkgRetryCheck
    /\ final_check = DpkgFinalCheck
    /\ retries = MaxRetries
    /\ Invocations = MaxRetries + 1
    /\ \A i \in 1..Invocations : ShowsLock(trail[i])
    /\ exit_code = DPKGLockedErrorCode

\* What the settings say about the managed identity when one is given.
Given(s) == s.setting = ManagedIdentity

\* C21: get_managed_identity returns an error message if and only if a
\* managedIdentity setting is present and a key is missing, or the name is
\* not object_id, client_id or mi_res_id, or the value is empty, or the
\* name is object_id or client_id and the value as a whole is not a GUID;
\* with no managedIdentity setting it returns empty name, empty value and
\* no error.
C21_IdentityErrorIff ==
    [][StepFrom("startup") =>
          /\ error_msg' # NoError <=>
                 /\ Given(public_settings)
                 /\ \/ ~public_settings.has_name
                    \/ ~public_settings.has_value
                    \/ public_settings.name \notin IdentifierNames
                    \/ public_settings.value = ""
                    \/ /\ public_settings.name \in {"object_id", "client_id"}
                       /\ ~WholeGuid(public_settings.value)
          /\ ~Given(public_settings) =>
                 (identifier_name' = "" /\ identifier_value' = "" /\ error_msg' = NoError)]_vars

\* C22: the identity is resolved once, before the first cycle, and does not
\* change afterwards: every issuance of one lifetime of the watcher is
\* called with the same (name, value) pair, the one resolved at the start,
\* whatever becomes of the settings meanwhile.
C22_IdentityImmutable ==
    /\ [][pc # "startup" => UNCHANGED <<identifier_name, identifier_value>>]_vars
    /\ [](Cardinality(issued_with) <= 1)
    /\ [](issued_with \subseteq {<<identifier_name, identifier_value>>})
    /\ [](pc = "startup" => issuances = 0)

C22_Witness ==
    /\ issuances = MaxIssuances
    /\ identifier_name = "object_id"
    /\ public_settings.name = "client_id"
    /\ issued_with = {<<"object_id", Guid>>}

\* C23: with no expiry cached in memory and the token cache file absent
\* or without an expires_on field, the credential check of an active cycle
\* calls the token issuance.
C23_NoCachedTokenIssues ==
    [][(StepFrom("credential") /\ NoExpiryCached(me_msi_token_expiry_epoch)
          /\ token_file' \in {TokenFileAbsent, TokenFileNoExpiry}) =>
             (Active(data) /\ In(Added, GenerateCall))]_vars

C23_Witness ==
    /\ pc = "liveness_telegraf"
    /\ token_file = TokenFileNoExpiry
    /\ prev_data = data
    /\ calls = <<GenerateCall>>
    /\ "token_refreshed" \in logged

\* C24: with no expiry cached in memory and a token cache file that has an
\* expires_on field, the field's value becomes the cached expiry and the
\* cycle goes on with the margin check and the liveness pass: reading the
\* file does not abort the cycle.
C24_TokenFileRead ==
    [][(StepFrom("credential") /\ NoExpiryCached(me_msi_token_expiry_epoch)
          /\ token_file' = TokenFileWithExpiry) =>
             /\ pc' = "liveness_telegraf"
             /\ "exception" \notin logged'
             /\ ~NoExpiryCached(me_msi_token_expiry_epoch')]_vars

\* The credential check at the margin's boundary: an expiry is cached and
\* it is exactly 1800 s after the current time.
AtBoundary ==
    /\ ~NoExpiryCached(me_msi_token_expiry_epoch)
    /\ me_msi_token_expiry_epoch - now = RefreshMarginSeconds

CameBack(i) == returned[i] \in {"ok", "not_ok"}

\* The results the calls of a step returned.
AddedResults == SubSeq(returned', Len(returned) + 1, Len(returned'))

LivenessPc(a) == IF a = Telegraf THEN "liveness_telegraf" ELSE "liveness_me"

\* C26: a restart in the liveness pass is: the counter incremented, stop(),
\* start(), in that order, for the sub-agent found not running; start() is
\* called whatever stop() returned, and the counter has its incremented
\* value whatever stop() and start() returned; a sub-agent found running gets
\* neither call.
C26_RestartSequence ==
    /\ [][\A a \in Agents : StepFrom(LivenessPc(a)) =>
             /\ running[a] => IsPrefix(Added, <<Call(a, "is_running")>>)
             /\ ~running[a] =>
                    IsPrefix(Added, <<Call(a, "is_running"), Call(a, "stop"), Call(a, "start")>>)
             /\ (~running[a] /\ Len(Added) >= 2) =>
                    (IF a = Telegraf THEN telegraf_restart_retries' ELSE me_restart_retries') = 1
             /\ (~running[a] /\ "exception" \notin logged') => Len(Added) = 3]_vars
    /\ [](Active(data) =>
            \A i \in 1..Len(calls) :
                (calls[i][2] = "stop" /\ CameBack(i)) =>
                    (Len(calls) > i /\ calls[i + 1] = Call(calls[i][1], "start")))

C26_Witness ==
    /\ pc = "liveness_me"
    /\ telegraf_restart_retries = 1
    /\ Len(calls) >= 3
    /\ SubSeq(calls, Len(calls) - 2, Len(calls))
           = <<Call(Telegraf, "is_running"), Call(Telegraf, "stop"), Call(Telegraf, "start")>>
    /\ SubSeq(returned, Len(calls) - 2, Len(calls)) = <<"-", "not_ok", "not_ok">>

\* C27: in a cycle whose configuration is a JSON object with no counter, a
\* sub-agent gets stop() and then remove() if and only if its is_running
\* check reports it running: stop() comes first, remove() is called whatever
\* stop() returned, and a sub-agent that is not running gets neither call.
C27_ClearedStopsThenRemoves ==
    /\ [][StepFrom("cleared") =>
             \A a \in Agents :
                 /\ ~running[a] =>
                        (~In(Added, Call(a, "stop")) /\ ~In(Added, Call(a, "remove")))
                 /\ In(Added, Call(a, "remove")) =>
                        /\ In(Added, Call(a, "stop"))
                        /\ IndexOf(Added, Call(a, "remove")) = IndexOf(Added, Call(a, "stop")) + 1
                 /\ In(Added, Call(a, "stop")) =>
                        IndexOf(Added, Call(a, "stop")) = IndexOf(Added, Call(a, "is_running")) + 1
                 /\ (running[a] /\ "exception" \notin logged') =>
                        In(Added, Call(a, "remove"))]_vars
    /\ [](Classify(data) = "cleared" =>
            \A i \in 1..Len(calls) :
                (calls[i][2] = "stop" /\ CameBack(i)) =>
                    (Len(calls) > i /\ calls[i + 1] = Call(calls[i][1], "remove")))

C27_Witness ==
    /\ pc = "sleep"
    /\ data = ZeroCounters
    /\ "exception" \notin logged
    /\ calls = ClearedPlan([a \in Agents |-> a = Telegraf])
    /\ returned = <<"-", "not_ok", "-", "-">>

\* C28: a start that returns not-ok during the reconciliation of a changed
\* active configuration changes nothing else: the calls that follow it in
\* the reconciliation are made, the fingerprint is recorded, the credential
\* check comes next and the liveness pass after it, and neither restart
\* counter is changed by the reconciliation.
C28_FailedStartGoesOn ==
    /\ [][(StepFrom("reconcile") /\ In(AddedResults, "not_ok")) =>
             /\ AddedResults[3] = "not_ok" => Len(Added) = Len(ReconcilePlan)
             /\ "exception" \notin logged' =>
                    /\ Added = ReconcilePlan
                    /\ last_crc' = Fingerprint(data)
                    /\ pc' = "credential"
             /\ UNCHANGED <<telegraf_restart_retries, me_restart_retries>>]_vars
    /\ []((Active(data) /\ pc = "sleep" /\ "exception" \notin logged
             /\ IsPrefix(ReconcilePlan, calls)) =>
                \E r \in Readings : \E s \in CycleOrders(r) : calls = s)

C28_Witness ==
    /\ pc = "sleep"
    /\ "exception" \notin logged
    /\ last_crc = Fingerprint(data)
    /\ IsPrefix(ReconcilePlan, calls)
    /\ SubSeq(returned, 1, 4) = <<"-", "-", "not_ok", "not_ok">>
    /\ In(calls, GenerateCall)
    /\ In(calls, Call(Me, "is_running"))

\* The sleeps of the call under way: one after each invocation that was
\* followed by time.sleep.
Sleeps == Cardinality({i \in 1..Invocations : trail[i].slept})

\* C29: run_command_with_retries_output sleeps only between two
\* invocations of the command: when it returns it has slept once less than
\* it has invoked the command, and not after the last invocation, whether
\* retry_check said stop or the retries were used up.
C29_SleepsBetweenInvocations ==
    Returning =>
        /\ Sleeps = Invocations - 1
        /\ ~trail[Invocations].slept

\* C30: an invocation runs the command with ' -v' if and only if the
\* retry_check of the invocation just before it returned retry_verbosely
\* true; the first invocation runs the plain command.
C30_VerboseIffAsked ==
    \A i \in 1..Invocations :
        trail[i].cmd = CmdVerbose <=> (i > 1 /\ trail[i - 1].retry_verbosely)

\* The identity get_managed_identity turned down: an error message came
\* back with it.
Rejected == error_msg # NoError

\* C31: when the identity is turned down at the watcher's start, every
\* token issuance of this lifetime is called with an empty name and an
\* empty value, never with the name or the value that was turned down.
C31_RejectedIdentityUnused ==
    Rejected => issued_with \subseteq {<<"", "">>}

\* C33: last_crc takes the fingerprint of an active content only once every
\* call of the reconciliation has returned; when one of them raises,
\* last_crc keeps its value, and the next cycle that polls the same bytes
\* finds them changed and reconciles them again.
C33_FingerprintAfterReconcile ==
    /\ [][StepFrom("reconcile") =>
             /\ last_crc' # last_crc =>
                    /\ Added = ReconcilePlan
                    /\ "exception" \notin logged'
                    /\ last_crc' = Fingerprint(data)
             /\ "exception" \in logged' =>
                    /\ In(Added, HandleConfig)
                    /\ last_crc' = last_crc]_vars
    /\ []((pc = "reconcile" /\ data = prev_data /\ data # recorded) =>
             HandleConfig \in earlier)
    /\ [][(StepFrom("reconcile") /\ data = prev_data /\ HandleConfig \in earlier
             /\ data # recorded) => In(Added, HandleConfig)]_vars

C33_Witness ==
    /\ pc = "credential"
    /\ data = prev_data
    /\ HandleConfig \in earlier
    /\ Call(Me, "start") \notin earlier
    /\ calls = ReconcilePlan
    /\ last_crc = Fingerprint(data)

\* The last three polls read an active content, then an object with no
\* counter, then the same bytes as the first.
BackAfterCleared ==
    /\ Len(polls) = 3
    /\ Active(polls[1].read)
    /\ polls[2].read = ZeroCounters
    /\ polls[3].read = polls[1].read

\* C34: the poll of an object with no counter overwrites last_crc with that
\* object's fingerprint, so when the polls read an active content A, then
\* {}, then the same bytes A, the cycle of the second A finds them changed
\* and sets both sub-agents up and starts them again.
C34_ClearedForgetsFingerprint ==
    /\ [][StepFrom("cleared") => last_crc' = Fingerprint(ZeroCounters)]_vars
    /\ [][(StepFrom("reconcile") /\ BackAfterCleared) =>
             /\ In(Added, HandleConfig)
             /\ "exception" \notin logged' =>
                    (Added = ReconcilePlan /\ last_crc' = Fingerprint(data))]_vars

C34_Witness ==
    /\ pc = "credential"
    /\ BackAfterCleared
    /\ polls[1].did = "set_up"
    /\ polls[2].did = "torn_down"
    /\ calls = ReconcilePlan
    /\ running = [a \in Agents |-> TRUE]

\* What a poll finds when there is no active configuration: no file, an
\* empty file, an object with no counter.
NotActive == {Absent, EmptyContent, ZeroCounters}

\* C35: in a cycle whose poll found no active configuration no set-up call
\* and no start call is made on either sub-agent and no token issuance is
\* called, the cycle goes to its sleep without the credential check and the
\* liveness pass, and no step of it brings up a sub-agent that is down.
C35_NothingStartedUnlessActive ==
    /\ [](data \in NotActive =>
            /\ \A i \in 1..Len(calls) :
                   calls[i][2] \notin {"handle_config", "setup_me", "start"}
            /\ ~In(calls, GenerateCall)
            /\ pc \in {"read", "cleared", "sleep"})
    /\ [][(data \in NotActive /\ pc' # pc) =>
             \A a \in Agents : running'[a] => running[a]]_vars

C35_Witness ==
    /\ pc = "sleep"
    /\ data = ZeroCounters
    /\ "exception" \notin logged
    /\ running = [a \in Agents |-> FALSE]
    /\ calls = <<Call(Telegraf, "is_running"), Call(Me, "is_running")>>

\* C32: once the stop_metrics_process that disable called has returned, no
\* watcher process is alive, and no sub-agent that it stopped and removed
\* has been started again by the watcher.
C32_DisableLeavesNothingRunning ==
    stop_pc = "done" => (alive = {} /\ restarted = {})

\* main has dispatched to enable, which has come to its end.
EnableDone == main_pc = "exited" /\ In(invoked, "Enable")

\* The handler reports that the sequence number is not greater than the one
\* last executed.
NotGreater == HUtilObject # NoHUtil /\ seq_smaller

\* C36: when the handler reports a sequence number not greater than the
\* last executed one, enable returns exit code 0 without running the service
\* start command, without starting the watcher and without saving the
\* sequence number; otherwise the watcher is started and the sequence number
\* saved if and only if the service start command exits 0.
C36_EnableGatedBySequence ==
    EnableDone =>
        IF NotGreater
        THEN /\ main_exit_code = 0
             /\ start_command = NotRun
             /\ ~In(invoked, "start_metrics_process")
             /\ ~In(invoked, "save_seq")
        ELSE (In(invoked, "start_metrics_process") /\ In(invoked, "save_seq"))
                 <=> start_command.code = 0

\* The disk-space check reports low space.
DiskCheckFails == check_disk_space_availability(free_space_mb) # 0

\* C37: for an operation other than Disable and Uninstall, when the
\* disk-space check fails main exits with code 52 and nothing of the
\* operation is invoked, not even the parse of its context; Disable and
\* Uninstall go on to their invocation whatever the free disk space, and
\* are invoked unless the parse of the context fails.
C37_DiskGate ==
    /\ []((main_pc = "exited" /\ operation \notin destructive_operations \cup {NoOperation}
             /\ DiskCheckFails) =>
                (main_exit_code = 52 /\ invoked = <<>>))
    /\ [][(main_pc = "gate" /\ main_pc' # "gate" /\ operation \in destructive_operations) =>
             main_pc' = "invoke"]_vars
    /\ []((main_pc = "exited" /\ operation \in destructive_operations) =>
             \/ In(invoked, operation)
             \/ invoked = <<"parse_context">>
                    /\ main_exit_code = MissingorInvalidParameterErrorCode)

C37_Witness ==
    /\ main_pc = "exited"
    /\ operation = "Enable"
    /\ free_space_mb = <<"enough", "enough", "low">>
    /\ main_exit_code = 52
    /\ invoked = <<>>

\* C38: every operation name the matching of the argument can produce is a
\* key of the operations dictionary, so the dispatch of a recognized
\* operation never ends in a lookup error and its exit code 1.
C38_EveryOperationHasHandler ==
    operation # NoOperation => operation \in operations

TypeOK ==
    /\ pc \in {"read", "cleared", "reconcile", "credential", "liveness_telegraf",
               "liveness_me", "sleep"}
    /\ data \in FileStates \cup {NoData}
    /\ telegraf_restart_retries \in 0..max_restart_retries
    /\ me_restart_retries \in 0..max_restart_retries

====
